---- MODULE Spec2Model ----
(***************************************************************************)
(* The recursive-descent parser of src/src/parser.cpp as a state machine.  *)
(*                                                                         *)
(* The C call stack is the variable `stack`: one frame per active          *)
(* ast_parse_* call, holding the function's parameters and locals and the  *)
(* position reached in its body.  One action is one stretch of a function  *)
(* body between two calls (or between a call and the return).              *)
(*                                                                         *)
(* An `int *token_index` parameter is a pointer: 0 stands for the variable *)
(* token_index of ast_parse, d > 0 for the local token_index of the frame  *)
(* at depth d (the by-value functions ast_parse_fn_call_param_list and     *)
(* ast_parse_fn_decl pass the address of their own copy).                  *)
(*                                                                         *)
(* AstNode and ZigList<AstNode*> objects live in the heaps `nodes` and     *)
(* `lists`; a pointer is the index into the heap, 0 is nullptr.            *)
(***************************************************************************)
EXTENDS Integers, Sequences, FiniteSets, TLC

VARIABLES
    buf,            \* ParseContext.buf: the source bytes
    tokens,         \* ParseContext.tokens: the lexer's output
    token_index,    \* int token_index of ast_parse
    directive_list, \* ParseContext.directive_list (0 = nullptr)
    root,           \* ParseContext.root (0 until ast_parse_root returns)
    nodes,          \* heap of AstNode
    lists,          \* heap of ZigList<AstNode*>
    stack,          \* C call stack
    ret,            \* value returned by the call that returned last
    diags,          \* ErrorMsg records handed to print_err_msg
    status,         \* "running", "returned", "exited", "aborted"
    reads,          \* indices handed to pc->tokens->at()
    cursor_writes   \* assignments made to a token index: function, amount added

vars == <<buf, tokens, token_index, directive_list, root, nodes, lists,
          stack, ret, diags, status, reads, cursor_writes>>

nullptr == 0

(***************************************************************************)
(* Bounds of the inputs.                                                   *)
(***************************************************************************)
TokensPerLine == 4
MaxDirectives == 2
MaxChain == 4
MaxPtrDepth == 2
MaxParams == 2
MaxUnits == 2

(***************************************************************************)
(* Tokens as the lexer delivers them.                                      *)
(***************************************************************************)
T(id, text) == [id |-> id, text |-> text]

Eof        == T("TokenIdEof", <<>>)
NumberSign == T("TokenIdNumberSign", <<"#">>)
LParen     == T("TokenIdLParen", <<"(">>)
RParen     == T("TokenIdRParen", <<")">>)
LBrace     == T("TokenIdLBrace", <<"{">>)
RBrace     == T("TokenIdRBrace", <<"}">>)
Comma      == T("TokenIdComma", <<",">>)
Colon      == T("TokenIdColon", <<":">>)
Semicolon  == T("TokenIdSemicolon", <<";">>)
Arrow      == T("TokenIdArrow", <<"-", ">">>)
Star       == T("TokenIdStar", <<"*">>)
Slash      == T("TokenIdSlash", <<"/">>)
Percent    == T("TokenIdPercent", <<"%">>)
Plus       == T("TokenIdPlus", <<"+">>)
Dash       == T("TokenIdDash", <<"-">>)
Bang       == T("TokenIdBang", <<"!">>)
Tilde      == T("TokenIdTilde", <<"~">>)
ShiftLeft  == T("TokenIdBitShiftLeft", <<"<", "<">>)
ShiftRight == T("TokenIdBitShiftRight", <<">", ">">>)
BinAnd     == T("TokenIdBinAnd", <<"&">>)
BinXor     == T("TokenIdBinXor", <<"^">>)
BinOr      == T("TokenIdBinOr", <<"|">>)
CmpEq      == T("TokenIdCmpEq", <<"=", "=">>)
CmpNotEq   == T("TokenIdCmpNotEq", <<"!", "=">>)
CmpLess    == T("TokenIdCmpLessThan", <<"<">>)
CmpGreater == T("TokenIdCmpGreaterThan", <<">">>)
CmpLessEq  == T("TokenIdCmpLessOrEq", <<"<", "=">>)
CmpGreaterEq == T("TokenIdCmpGreaterOrEq", <<">", "=">>)
BoolAnd    == T("TokenIdBoolAnd", <<"&", "&">>)
BoolOr     == T("TokenIdBoolOr", <<"|", "|">>)
KwFn       == T("TokenIdKeywordFn", <<"f", "n">>)
KwPub      == T("TokenIdKeywordPub", <<"p", "u", "b">>)
KwExport   == T("TokenIdKeywordExport", <<"e", "x", "p", "o", "r", "t">>)
KwExtern   == T("TokenIdKeywordExtern", <<"e", "x", "t", "e", "r", "n">>)
KwUse      == T("TokenIdKeywordUse", <<"u", "s", "e">>)
KwReturn   == T("TokenIdKeywordReturn", <<"r", "e", "t", "u", "r", "n">>)
KwAs       == T("TokenIdKeywordAs", <<"a", "s">>)
KwConst    == T("TokenIdKeywordConst", <<"c", "o", "n", "s", "t">>)
KwMut      == T("TokenIdKeywordMut", <<"m", "u", "t">>)
KwUnreachable == T("TokenIdKeywordUnreachable", <<"u", "n", "r">>)
Sym(c)     == T("TokenIdSymbol", <<c>>)
Num(c)     == T("TokenIdNumberLiteral", <<c>>)
Str(bytes) == T("TokenIdStringLiteral", <<"\"">> \o bytes \o <<"\"">>)

(* The lexer: byte offsets into buf, 1-based line and column.  Lexemes are *)
(* laid out in buf one after the other, separated by one blank.            *)
RECURSIVE LexFrom(_, _, _)
LexFrom(items, i, pos) ==
    IF i > Len(items) THEN <<>>
    ELSE <<[id           |-> items[i].id,
            start_pos    |-> pos,
            end_pos      |-> pos + Len(items[i].text),
            start_line   |-> 1 + ((i - 1) \div TokensPerLine),
            start_column |-> 1 + ((i - 1) % TokensPerLine)]>>
         \o LexFrom(items, i + 1, pos + Len(items[i].text) + 1)

Lex(items) == LexFrom(items, 1, 0)

RECURSIVE SourceOf(_, _)
SourceOf(items, i) ==
    IF i > Len(items) THEN <<>>
    ELSE items[i].text \o <<" ">> \o SourceOf(items, i + 1)

(***************************************************************************)
(* Machine helpers.                                                        *)
(***************************************************************************)
Top == stack[Len(stack)]
Depth == Len(stack)

At(fn, pc) == status = "running" /\ Len(stack) > 0 /\ Top.fn = fn /\ Top.pc = pc

\* a fresh frame: parameters mandatory, token_index pointer, token_index
\* value (by-value functions) and one AstNode* / ZigList* parameter
Frame(fn, mandatory, tip, ti, node) ==
    [fn |-> fn, pc |-> "entry", mandatory |-> mandatory, tip |-> tip,
     ti |-> ti, node |-> node, tok |-> 0, op |-> "", x |-> 0, first |-> 0]

\* the functions that take token_index by value and report the index they
\* reached through new_token_index
ByValue ==
    {"ast_parse_directive", "ast_parse_type", "ast_parse_param_decl",
     "ast_parse_param_decl_list", "ast_parse_fn_call_param_list", "ast_parse_fn_decl"}

\* *p for an int pointer p
Deref(p) == IF p = 0 THEN token_index ELSE stack[p].ti
\* *p = v
StoreT(p, v) == IF p = 0 THEN v ELSE token_index
StoreS(s, p, v) == IF p = 0 THEN s ELSE [s EXCEPT ![p].ti = v]

SetTop(s, f) == [s EXCEPT ![Len(s)] = f]
Push(s, f) == Append(s, f)
Pop(s) == SubSeq(s, 1, Len(s) - 1)

\* pc->tokens->at(i)
InRange(i) == i >= 0 /\ i < Len(tokens)
TokId(i) == IF InRange(i) THEN tokens[i + 1].id ELSE "TokenIdOutOfRange"

\* the effect of a stretch of code: the values it leaves in the variables,
\* the token indices it read and the assignments it made to a token index
Eff == [stack |-> stack, token_index |-> token_index, nodes |-> nodes,
        lists |-> lists, directive_list |-> directive_list, ret |-> ret,
        reads |-> {}, writes |-> {}]

\* *p within an effect e
DerefE(e, p) == IF p = 0 THEN e.token_index ELSE e.stack[p].ti

\* *p = v through an int pointer p; the pointer Depth is the address of the
\* running function's own token_index
Store(e, p, v) ==
    [e EXCEPT !.stack = StoreS(@, p, v),
              !.token_index = IF p = 0 THEN v ELSE @,
              !.writes = @ \cup {[fn |-> Top.fn, d |-> v - DerefE(e, p)]}]
\* *p += n + 1
AdvBy_more(e, p, n) == Store(e, p, DerefE(e, p) + n + 1)
\* *p += n
AdvBy(e, p, n) == Store(e, p, DerefE(e, p) + n)
\* *p += 1, k times over
RECURSIVE AdvN(_, _, _)
AdvN(e, p, k) == IF k = 0 THEN e ELSE AdvN(AdvBy(e, p, 1), p, k - 1)

Read(e, rds) == [e EXCEPT !.reads = @ \cup rds]
\* assignments to the locals of the running function
SetPc(e, pc) == [e EXCEPT !.stack[Depth].pc = pc]
SetTok(e, i) == [e EXCEPT !.stack[Depth].tok = i]
SetNode(e, id) == [e EXCEPT !.stack[Depth].node = id]
SetOp(e, op) == [e EXCEPT !.stack[Depth].op = op]
SetX(e, x) == [e EXCEPT !.stack[Depth].x = x]
\* call g and resume at pc; return v to the caller
\* (the frame notes in `first` the token index the callee starts at)
Call(e, pc, g) ==
    [e EXCEPT !.stack =
        Push([@ EXCEPT ![Depth].pc = pc],
             [g EXCEPT !.first = IF g.fn \in ByValue THEN g.ti ELSE DerefE(e, g.tip)])]
Return(e, v) == [e EXCEPT !.stack = Pop(@), !.ret = v]
\* allocate<AstNode>(1), allocate<ZigList<AstNode*>>(1)
Alloc(e, node) == [e EXCEPT !.nodes = Append(@, node)]
NewNode(e) == Len(e.nodes) + 1
AllocList(e) == [e EXCEPT !.lists = Append(@, <<>>)]
SetData(e, id, data) == [e EXCEPT !.nodes[id].data = data]
\* the slot is filled but never emptied
SetDirectiveList_keep(e, l) == IF l = nullptr THEN e ELSE [e EXCEPT !.directive_list = l]

\* pc->directive_list = l
SetDirectiveList(e, l) == [e EXCEPT !.directive_list = l]

Apply(e) ==
    /\ stack' = e.stack
    /\ token_index' = e.token_index
    /\ nodes' = e.nodes
    /\ lists' = e.lists
    /\ directive_list' = e.directive_list
    /\ reads' = reads \cup e.reads
    /\ cursor_writes' = cursor_writes \cup e.writes

\* the step taken when the code runs on
Go(e) ==
    /\ Apply(e)
    /\ ret' = e.ret
    /\ UNCHANGED <<buf, tokens, root, diags, status>>

Chars(n) ==
    CASE n = "invalid token" ->
           <<"i", "n", "v", "a", "l", "i", "d", " ", "t", "o", "k", "e", "n", ":", " ", "'">>
      [] n = "invalid directive" ->
           <<"i", "n", "v", "a", "l", "i", "d", " ", "d", "i", "r", "e", "c", "t", "i", "v", "e">>

\* ast_buf_from_token: the bytes buf[start_pos .. end_pos)
ast_buf_from_token(i) ==
    IF InRange(i) THEN SubSeq(buf, tokens[i + 1].start_pos + 1, tokens[i + 1].end_pos)
    ELSE <<>>

\* the ErrorMsg that ast_error fills from the token
ErrorMsgAt(i, msg) ==
    [line_start   |-> IF InRange(i) THEN tokens[i + 1].start_line ELSE 0,
     column_start |-> IF InRange(i) THEN tokens[i + 1].start_column ELSE 0,
     line_end     |-> -1,
     column_end   |-> -1,
     msg          |-> msg,
     token        |-> i]

\* ast_error as it would be if print_err_msg were not followed by exit
ast_error_no_exit(e, i, msg) ==
    /\ Apply(e)
    /\ diags' = Append(diags, ErrorMsgAt(i, msg))
    /\ UNCHANGED <<buf, tokens, root, ret, status>>

\* ast_error: print the message and exit; e is what the code did before
ast_error(e, i, msg) ==
    /\ Apply(e)
    /\ diags' = Append(diags, ErrorMsgAt(i, msg))
    /\ status' = "exited"
    /\ UNCHANGED <<buf, tokens, root, ret>>

\* ast_invalid_token_error with the position of the token before
ast_invalid_token_error_before(e, i) ==
    ast_error(e, i - 1, Chars("invalid token") \o ast_buf_from_token(i) \o <<"'">>)

ast_invalid_token_error(e, i) ==
    ast_error(e, i, Chars("invalid token") \o ast_buf_from_token(i) \o <<"'">>)

\* a failed assert(): the process aborts
AssertFail(e) ==
    /\ Apply(e)
    /\ status' = "aborted"
    /\ UNCHANGED <<buf, tokens, root, ret, diags>>

(***************************************************************************)
(* AST node factory.                                                       *)
(***************************************************************************)
\* (first is not a field of AstNode: it notes the token index at which the
\* function that allocates the node was entered)
ast_create_node_no_line_info(type, data) ==
    [type |-> type, line |-> 0, column |-> 0, data |-> data, first |-> Top.first]

\* ast_update_node_line_info with line and column exchanged
ast_update_node_line_info_swapped(node, first_token) ==
    IF InRange(first_token)
    THEN [node EXCEPT !.line = tokens[first_token + 1].start_column,
                      !.column = tokens[first_token + 1].start_line]
    ELSE node

ast_update_node_line_info(node, first_token) ==
    IF InRange(first_token)
    THEN [node EXCEPT !.line = tokens[first_token + 1].start_line,
                      !.column = tokens[first_token + 1].start_column]
    ELSE node

ast_create_node(type, first_token, data) ==
    ast_update_node_line_info(ast_create_node_no_line_info(type, data), first_token)

ast_create_node_with_node(nds, type, other_node, data) ==
    [ast_create_node_no_line_info(type, data)
        EXCEPT !.line = nds[other_node].line, !.column = nds[other_node].column]

VoidName == <<"v", "o", "i", "d">>
UnreachableName == <<"u", "n", "r", "e", "a", "c", "h", "a", "b", "l", "e">>

TypeData(kind, name, is_const, child) ==
    [type |-> kind, primitive_name |-> name, is_const |-> is_const, child_type |-> child]

\* ast_create_void_type_node with the position of the token before
ast_create_void_type_node_before(token) ==
    ast_create_node("NodeTypeType", token - 1,
                    TypeData("AstNodeTypeTypePrimitive", VoidName, FALSE, nullptr))

ast_create_void_type_node(token) ==
    ast_create_node("NodeTypeType", token,
                    TypeData("AstNodeTypeTypePrimitive", VoidName, FALSE, nullptr))

(***************************************************************************)
(* String-literal decoder.                                                 *)
(***************************************************************************)
\* the loop of parse_string_literal from byte i (0-based) up to end_pos - 1;
\* the result is the output buffer and the escape flag the assert examines
\* the loop with `\n` giving the byte n
RECURSIVE StringLoop_plain(_, _, _, _)
StringLoop_plain(i, last, out, escape) ==
    IF i >= last THEN [out |-> out, escape |-> escape]
    ELSE LET c == buf[i + 1] IN
         IF escape THEN
            StringLoop_plain(i + 1, last,
                       CASE c = "\\" -> Append(out, "\\")
                         [] c = "r"  -> Append(out, "\r")
                         [] c = "n"  -> Append(out, "n")
                         [] c = "t"  -> Append(out, "\t")
                         [] c = "\"" -> Append(out, "\"")
                         [] OTHER    -> out,
                       FALSE)
         ELSE IF c = "\\" THEN StringLoop_plain(i + 1, last, out, TRUE)
         ELSE StringLoop_plain(i + 1, last, Append(out, c), FALSE)

\* the loop with a default case that appends the byte
RECURSIVE StringLoop_keep(_, _, _, _)
StringLoop_keep(i, last, out, escape) ==
    IF i >= last THEN [out |-> out, escape |-> escape]
    ELSE LET c == buf[i + 1] IN
         IF escape THEN
            StringLoop_keep(i + 1, last,
                       CASE c = "\\" -> Append(out, "\\")
                         [] c = "r"  -> Append(out, "\r")
                         [] c = "n"  -> Append(out, "\n")
                         [] c = "t"  -> Append(out, "\t")
                         [] c = "\"" -> Append(out, "\"")
                         [] OTHER    -> Append(out, c),
                       FALSE)
         ELSE IF c = "\\" THEN StringLoop_keep(i + 1, last, out, TRUE)
         ELSE StringLoop_keep(i + 1, last, Append(out, c), FALSE)

RECURSIVE StringLoop(_, _, _, _)
StringLoop(i, last, out, escape) ==
    IF i >= last THEN [out |-> out, escape |-> escape]
    ELSE LET c == buf[i + 1] IN
         IF escape THEN
            StringLoop(i + 1, last,
                       CASE c = "\\" -> Append(out, "\\")
                         [] c = "r"  -> Append(out, "\r")
                         [] c = "n"  -> Append(out, "\n")
                         [] c = "t"  -> Append(out, "\t")
                         [] c = "\"" -> Append(out, "\"")
                         [] OTHER    -> out,
                       FALSE)
         ELSE IF c = "\\" THEN StringLoop(i + 1, last, out, TRUE)
         ELSE StringLoop(i + 1, last, Append(out, c), FALSE)

\* parse_string_literal that starts at the first byte of the token
parse_string_literal_quote(token) ==
    IF InRange(token)
    THEN StringLoop(tokens[token + 1].start_pos, tokens[token + 1].end_pos - 1, <<>>, FALSE)
    ELSE [out |-> <<>>, escape |-> FALSE]

parse_string_literal(token) ==
    IF InRange(token)
    THEN StringLoop(tokens[token + 1].start_pos + 1, tokens[token + 1].end_pos - 1, <<>>, FALSE)
    ELSE [out |-> <<>>, escape |-> FALSE]

\* ast_expect_token that accepts every token
ast_expect_token_any(i, token_id) == TRUE

ast_expect_token(i, token_id) == TokId(i) = token_id

Min(S) == CHOOSE x \in S : \A y \in S : x <= y

(***************************************************************************)
(* Directive collector.                                                    *)
(***************************************************************************)
DirectiveTokens ==
    <<"TokenIdNumberSign", "TokenIdSymbol", "TokenIdLParen",
      "TokenIdStringLiteral", "TokenIdRParen">>

\* the directive that does not report the index it reached
ast_parse_directive_lost ==
    /\ At("ast_parse_directive", "entry")
    /\ LET i == Top.ti
           bad == {k \in 1..5 : ~ast_expect_token(i + k - 1, DirectiveTokens[k])}
           node == ast_create_node("NodeTypeDirective", i, [name |-> <<>>, param |-> <<>>])
       IN IF bad # {}
          THEN LET k == Min(bad)
                   e1 == Read(AdvN(Eff, Depth, k), i..(i + k - 1))
               IN ast_invalid_token_error(IF k > 1 THEN Alloc(e1, node) ELSE e1, i + k - 1)
          ELSE LET str == parse_string_literal(i + 3)
                   e1 == Alloc(Read(AdvN(Eff, Depth, 5), i..(i + 4)), node)
                   id == NewNode(Eff)
                   e2 == SetData(e1, id, [name |-> ast_buf_from_token(i + 1), param |-> str.out])
               IN IF str.escape THEN AssertFail(e2)
                  ELSE Go(Return(e2, id))

\* ast_parse_directive(pc, token_index, new_token_index): five tokens, each
\* read, stepped over and then checked
ast_parse_directive ==
    /\ At("ast_parse_directive", "entry")
    /\ LET i == Top.ti
           bad == {k \in 1..5 : ~ast_expect_token(i + k - 1, DirectiveTokens[k])}
           node == ast_create_node("NodeTypeDirective", i, [name |-> <<>>, param |-> <<>>])
       IN IF bad # {}
          THEN LET k == Min(bad)
                   e1 == Read(AdvN(Eff, Depth, k), i..(i + k - 1))
               IN ast_invalid_token_error(IF k > 1 THEN Alloc(e1, node) ELSE e1, i + k - 1)
          ELSE LET str == parse_string_literal(i + 3)
                   e1 == Alloc(Read(AdvN(Eff, Depth, 5), i..(i + 4)), node)
                   id == NewNode(Eff)
                   e2 == SetData(e1, id, [name |-> ast_buf_from_token(i + 1), param |-> str.out])
               IN IF str.escape THEN AssertFail(e2)
                  ELSE Go(Return(Store(e2, Top.tip, i + 5), id))

\* ast_parse_directives(pc, token_index, directives): the loop head
ast_parse_directives ==
    /\ At("ast_parse_directives", "entry")
    /\ LET i == Deref(Top.tip)
       IN IF TokId(i) = "TokenIdNumberSign"
          THEN Go(Call(Read(Eff, {i}), "directive",
                       Frame("ast_parse_directive", FALSE, Top.tip, i, nullptr)))
          ELSE Go(Return(Read(Eff, {i}), nullptr))

\* ast_parse_directives without the append
ast_parse_directives_append_none ==
    /\ At("ast_parse_directives", "directive")
    /\ Go(SetPc(Eff, "entry"))

\* directives->append(directive_node)
ast_parse_directives_append ==
    /\ At("ast_parse_directives", "directive")
    /\ Go(SetPc([Eff EXCEPT !.lists[Top.node] = Append(@, ret)], "entry"))

(***************************************************************************)
(* Types and parameter lists.                                              *)
(***************************************************************************)
\* the type that takes any token behind `*` for `mut`
ast_parse_type_lax ==
    /\ At("ast_parse_type", "entry")
    /\ LET i == Top.ti
           id == NewNode(Eff)
           prim(name) == ast_create_node("NodeTypeType", i,
                             TypeData("AstNodeTypeTypePrimitive", name, FALSE, nullptr))
           e1 == Read(AdvBy(Eff, Depth, 1), {i})
       IN CASE TokId(i) = "TokenIdKeywordUnreachable" ->
                 Go(Return(Store(Alloc(e1, prim(UnreachableName)), Top.tip, i + 1), id))
            [] TokId(i) = "TokenIdSymbol" ->
                 Go(Return(Store(Alloc(e1, prim(ast_buf_from_token(i))), Top.tip, i + 1), id))
            [] TokId(i) = "TokenIdStar" ->
                 LET ptr(c) == ast_create_node("NodeTypeType", i,
                                   TypeData("AstNodeTypeTypePointer", <<>>, c, nullptr))
                     e2 == Read(AdvBy(e1, Depth, 1), {i + 1})
                 IN IF TokId(i + 1) # "TokenIdEof"
                    THEN Go(Call(SetNode(Alloc(e2, ptr(TokId(i + 1) = "TokenIdKeywordConst")), id),
                                 "child_type",
                                 Frame("ast_parse_type", FALSE, Depth, i + 2, nullptr)))
                    ELSE ast_invalid_token_error(Alloc(e2, ptr(FALSE)), i + 1)
            [] OTHER -> ast_invalid_token_error(Alloc(e1, prim(<<>>)), i)

\* ast_parse_type(pc, token_index, new_token_index)
ast_parse_type ==
    /\ At("ast_parse_type", "entry")
    /\ LET i == Top.ti
           id == NewNode(Eff)
           prim(name) == ast_create_node("NodeTypeType", i,
                             TypeData("AstNodeTypeTypePrimitive", name, FALSE, nullptr))
           e1 == Read(AdvBy(Eff, Depth, 1), {i})
       IN CASE TokId(i) = "TokenIdKeywordUnreachable" ->
                 Go(Return(Store(Alloc(e1, prim(UnreachableName)), Top.tip, i + 1), id))
            [] TokId(i) = "TokenIdSymbol" ->
                 Go(Return(Store(Alloc(e1, prim(ast_buf_from_token(i))), Top.tip, i + 1), id))
            [] TokId(i) = "TokenIdStar" ->
                 LET ptr(c) == ast_create_node("NodeTypeType", i,
                                   TypeData("AstNodeTypeTypePointer", <<>>, c, nullptr))
                     e2 == Read(AdvBy(e1, Depth, 1), {i + 1})
                 IN IF TokId(i + 1) \in {"TokenIdKeywordMut", "TokenIdKeywordConst"}
                    THEN Go(Call(SetNode(Alloc(e2, ptr(TokId(i + 1) = "TokenIdKeywordConst")), id),
                                 "child_type",
                                 Frame("ast_parse_type", FALSE, Depth, i + 2, nullptr)))
                    ELSE ast_invalid_token_error(Alloc(e2, ptr(FALSE)), i + 1)
            [] OTHER -> ast_invalid_token_error(Alloc(e1, prim(<<>>)), i)

\* node->data.type.child_type = ...; *new_token_index = token_index
ast_parse_type_child ==
    /\ At("ast_parse_type", "child_type")
    /\ Go(Return(Store([Eff EXCEPT !.nodes[Top.node].data.child_type = ret], Top.tip, Top.ti),
                 Top.node))

ast_parse_param_decl ==
    /\ At("ast_parse_param_decl", "entry")
    /\ LET i == Top.ti
           id == NewNode(Eff)
           node == ast_create_node("NodeTypeParamDecl", i,
                                   [name |-> ast_buf_from_token(i), type |-> nullptr])
       IN IF ~ast_expect_token(i, "TokenIdSymbol")
          THEN ast_invalid_token_error(Read(AdvN(Eff, Depth, 1), {i}), i)
          ELSE IF ~ast_expect_token(i + 1, "TokenIdColon")
          THEN ast_invalid_token_error(Alloc(Read(AdvN(Eff, Depth, 2), {i, i + 1}), node), i + 1)
          ELSE Go(Call(SetNode(Alloc(Read(AdvN(Eff, Depth, 2), {i, i + 1}), node), id),
                       "type", Frame("ast_parse_type", FALSE, Depth, i + 2, nullptr)))

ast_parse_param_decl_type ==
    /\ At("ast_parse_param_decl", "type")
    /\ Go(Return(Store([Eff EXCEPT !.nodes[Top.node].data.type = ret], Top.tip, Top.ti),
                 Top.node))

ast_parse_param_decl_list ==
    /\ At("ast_parse_param_decl_list", "entry")
    /\ LET i == Top.ti
       IN IF ~ast_expect_token(i, "TokenIdLParen")
          THEN ast_invalid_token_error(Read(AdvN(Eff, Depth, 1), {i}), i)
          ELSE IF TokId(i + 1) = "TokenIdRParen"
          THEN Go(Return(Store(Read(AdvN(Eff, Depth, 2), {i, i + 1}), Top.tip, i + 2), nullptr))
          ELSE Go(Call(Read(AdvN(Eff, Depth, 1), {i, i + 1}), "param_decl",
                       Frame("ast_parse_param_decl", FALSE, Depth, i + 1, nullptr)))

\* the parameter list that lets a `,` stand in front of the `)`
ast_parse_param_decl_list_next_trailing ==
    /\ At("ast_parse_param_decl_list", "param_decl")
    /\ LET i == Top.ti
           e1 == Read(AdvN([Eff EXCEPT !.nodes[Top.node].data.params = Append(@, ret)], Depth, 1),
                      {i})
       IN IF TokId(i) = "TokenIdRParen"
          THEN Go(Return(Store(e1, Top.tip, i + 1), nullptr))
          ELSE IF ~ast_expect_token(i, "TokenIdComma")
          THEN ast_invalid_token_error(e1, i)
          ELSE IF TokId(i + 1) = "TokenIdRParen"
          THEN Go(Return(Store(Read(AdvN(e1, Depth, 1), {i + 1}), Top.tip, i + 2), nullptr))
          ELSE Go(Call(e1, "param_decl",
                       Frame("ast_parse_param_decl", FALSE, Depth, i + 1, nullptr)))

\* params->append(param_decl_node), then `)` or `,`
ast_parse_param_decl_list_next ==
    /\ At("ast_parse_param_decl_list", "param_decl")
    /\ LET i == Top.ti
           e1 == Read(AdvN([Eff EXCEPT !.nodes[Top.node].data.params = Append(@, ret)], Depth, 1),
                      {i})
       IN IF TokId(i) = "TokenIdRParen"
          THEN Go(Return(Store(e1, Top.tip, i + 1), nullptr))
          ELSE IF ~ast_expect_token(i, "TokenIdComma")
          THEN ast_invalid_token_error(e1, i)
          ELSE Go(Call(e1, "param_decl",
                       Frame("ast_parse_param_decl", FALSE, Depth, i + 1, nullptr)))

(***************************************************************************)
(* Function prototypes, definitions and declarations.                      *)
(***************************************************************************)
\* the FnProto data with the visibility left at private
FnProtoData_private(visib_mod, directives, name) ==
    [visib_mod |-> "FnProtoVisibModPrivate", directives |-> directives, name |-> name,
     params |-> <<>>, return_type |-> nullptr]

FnProtoData(visib_mod, directives, name) ==
    [visib_mod |-> visib_mod, directives |-> directives, name |-> name,
     params |-> <<>>, return_type |-> nullptr]

\* the optional visibility prefix, `fn`, the name; then the parameter list
ast_parse_fn_proto ==
    /\ At("ast_parse_fn_proto", "entry")
    /\ LET p == Top.tip
           i == Deref(p)
           id == NewNode(Eff)
           prefixed == TokId(i) \in {"TokenIdKeywordPub", "TokenIdKeywordExport"}
           visib_mod == CASE TokId(i) = "TokenIdKeywordPub" -> "FnProtoVisibModPub"
                          [] TokId(i) = "TokenIdKeywordExport" -> "FnProtoVisibModExport"
                          [] OTHER -> "FnProtoVisibModPrivate"
           \* index of the name token
           n == IF prefixed THEN i + 2 ELSE i + 1
           node(name) == ast_create_node("NodeTypeFnProto", i,
                                         FnProtoData(visib_mod, directive_list, name))
       IN IF ~prefixed /\ TokId(i) # "TokenIdKeywordFn"
          THEN IF Top.mandatory
               THEN ast_invalid_token_error(Read(Eff, {i}), i)
               ELSE Go(Return(Read(Eff, {i}), nullptr))
          ELSE IF prefixed /\ ~ast_expect_token(i + 1, "TokenIdKeywordFn")
          THEN ast_invalid_token_error(Read(AdvN(Eff, p, 2), {i, i + 1}), i + 1)
          ELSE LET e1 == SetDirectiveList(
                             Alloc(Read(AdvN(Eff, p, n - i + 1), i..n), node(<<>>)), nullptr)
               IN IF ~ast_expect_token(n, "TokenIdSymbol")
                  THEN ast_invalid_token_error(e1, n)
                  ELSE Go(Call(SetNode(SetData(e1, id, node(ast_buf_from_token(n)).data), id),
                               "params",
                               Frame("ast_parse_param_decl_list", FALSE, p, n + 1, id)))

\* the optional `-> Type`
ast_parse_fn_proto_return_type ==
    /\ At("ast_parse_fn_proto", "params")
    /\ LET p == Top.tip
           i == Deref(p)
       IN IF TokId(i) = "TokenIdArrow"
          THEN Go(Call(Read(AdvBy(Eff, p, 1), {i}), "return_type",
                       Frame("ast_parse_type", FALSE, p, i + 1, nullptr)))
          ELSE LET e1 == Alloc(Read(Eff, {i}), ast_create_void_type_node(i))
               IN Go(Return([e1 EXCEPT !.nodes[Top.node].data.return_type = NewNode(Eff)],
                            Top.node))

ast_parse_fn_proto_return ==
    /\ At("ast_parse_fn_proto", "return_type")
    /\ Go(Return([Eff EXCEPT !.nodes[Top.node].data.return_type = ret], Top.node))

ast_parse_fn_def ==
    /\ At("ast_parse_fn_def", "entry")
    /\ Go(Call(Eff, "fn_proto", Frame("ast_parse_fn_proto", Top.mandatory, Top.tip, 0, nullptr)))

ast_parse_fn_def_body ==
    /\ At("ast_parse_fn_def", "fn_proto")
    /\ IF ret = nullptr
       THEN Go(Return(Eff, nullptr))
       ELSE LET node == ast_create_node_with_node(nodes, "NodeTypeFnDef", ret,
                                                  [fn_proto |-> ret, body |-> nullptr])
            IN Go(Call(SetNode(Alloc(Eff, node), NewNode(Eff)), "body",
                       Frame("ast_parse_block", TRUE, Top.tip, 0, nullptr)))

ast_parse_fn_def_return ==
    /\ At("ast_parse_fn_def", "body")
    /\ Go(Return([Eff EXCEPT !.nodes[Top.node].data.body = ret], Top.node))

\* ast_parse_fn_decl(pc, token_index, new_token_index) hands the address of
\* its own token_index to ast_parse_fn_proto
ast_parse_fn_decl ==
    /\ At("ast_parse_fn_decl", "entry")
    /\ Go(Call(Eff, "fn_proto", Frame("ast_parse_fn_proto", TRUE, Depth, 0, nullptr)))

\* the FnDecl that takes any token for its `;`
ast_parse_fn_decl_semicolon_any ==
    /\ At("ast_parse_fn_decl", "fn_proto")
    /\ LET i == Top.ti
           node == ast_create_node_with_node(nodes, "NodeTypeFnDecl", ret, [fn_proto |-> ret])
           e1 == Read(AdvBy(Alloc(Eff, node), Depth, 1), {i})
       IN Go(Return(Store(e1, Top.tip, i + 1), NewNode(Eff)))

ast_parse_fn_decl_semicolon ==
    /\ At("ast_parse_fn_decl", "fn_proto")
    /\ LET i == Top.ti
           node == ast_create_node_with_node(nodes, "NodeTypeFnDecl", ret, [fn_proto |-> ret])
           e1 == Read(AdvBy(Alloc(Eff, node), Depth, 1), {i})
       IN IF ~ast_expect_token(i, "TokenIdSemicolon")
          THEN ast_invalid_token_error(e1, i)
          ELSE Go(Return(Store(e1, Top.tip, i + 1), NewNode(Eff)))

(***************************************************************************)
(* Extern blocks, root export declarations, use declarations.              *)
(***************************************************************************)
ast_parse_extern_block ==
    /\ At("ast_parse_extern_block", "entry")
    /\ LET p == Top.tip
           i == Deref(p)
           node == ast_create_node("NodeTypeExternBlock", i,
                                   [directives |-> directive_list, fn_decls |-> <<>>])
           e1 == SetDirectiveList(Alloc(Read(AdvN(Eff, p, 2), {i, i + 1}), node), nullptr)
       IN IF TokId(i) # "TokenIdKeywordExtern"
          THEN IF Top.mandatory
               THEN ast_invalid_token_error(Read(Eff, {i}), i)
               ELSE Go(Return(Read(Eff, {i}), nullptr))
          ELSE IF ~ast_expect_token(i + 1, "TokenIdLBrace")
          THEN ast_invalid_token_error(e1, i + 1)
          ELSE Go(SetPc(SetNode(e1, NewNode(Eff)), "loop"))

\* the head of the loop over the FnDecls: collect the directives
ast_parse_extern_block_loop ==
    /\ At("ast_parse_extern_block", "loop")
    /\ LET i == Deref(Top.tip)
           l == Len(lists) + 1
       IN IF directive_list # nullptr
          THEN AssertFail(Read(Eff, {i}))
          ELSE Go(Call(SetTok(SetDirectiveList(AllocList(Read(Eff, {i})), l), i), "directives",
                       Frame("ast_parse_directives", FALSE, Top.tip, 0, l)))

\* `}` ends the block, anything else starts a FnDecl
ast_parse_extern_block_item ==
    /\ At("ast_parse_extern_block", "directives")
    /\ LET p == Top.tip
           i == Deref(p)
       IN IF TokId(i) = "TokenIdRBrace"
          THEN IF Len(lists[directive_list]) > 0
               THEN ast_error(Read(Eff, {i}), Top.tok, Chars("invalid directive"))
               ELSE Go(Return(AdvBy(SetDirectiveList(Read(Eff, {i}), nullptr), p, 1), Top.node))
          ELSE Go(Call(Read(Eff, {i}), "fn_decl",
                       Frame("ast_parse_fn_decl", FALSE, p, i, nullptr)))

ast_parse_extern_block_append ==
    /\ At("ast_parse_extern_block", "fn_decl")
    /\ Go(SetPc([Eff EXCEPT !.nodes[Top.node].data.fn_decls = Append(@, ret)], "loop"))

ast_parse_root_export_decl ==
    /\ At("ast_parse_root_export_decl", "entry")
    /\ LET p == Top.tip
           i == Deref(p)
           id == NewNode(Eff)
           node(name) == ast_create_node("NodeTypeRootExportDecl", i,
                             [directives |-> directive_list,
                              type |-> ast_buf_from_token(i + 1), name |-> name])
           e1 == SetDirectiveList(
                     Alloc(AdvBy(Read(Eff, {i, i + 1}), p, 2), node(<<>>)), nullptr)
           e2 == Read(AdvBy(e1, p, 1), {i + 2})
           e3 == Read(AdvBy(e2, p, 1), {i + 3})
           str == parse_string_literal(i + 2)
       IN IF Top.mandatory THEN AssertFail(Eff)
          ELSE IF TokId(i) # "TokenIdKeywordExport"
          THEN Go(Return(Read(Eff, {i}), nullptr))
          ELSE IF TokId(i + 1) # "TokenIdSymbol"
          THEN Go(Return(Read(Eff, {i, i + 1}), nullptr))
          ELSE IF ~ast_expect_token(i + 2, "TokenIdStringLiteral")
          THEN ast_invalid_token_error(e2, i + 2)
          ELSE IF str.escape THEN AssertFail(e2)
          ELSE IF ~ast_expect_token(i + 3, "TokenIdSemicolon")
          THEN ast_invalid_token_error(SetData(e3, id, node(str.out).data), i + 3)
          ELSE Go(Return(SetData(e3, id, node(str.out).data), id))

ast_parse_use ==
    /\ At("ast_parse_use", "entry")
    /\ LET p == Top.tip
           i == Deref(p)
           str == parse_string_literal(i + 1)
           node == ast_create_node("NodeTypeUse", i,
                                   [path |-> str.out, directives |-> directive_list])
       IN IF Top.mandatory THEN AssertFail(Eff)
          ELSE IF TokId(i) # "TokenIdKeywordUse"
          THEN Go(Return(Read(Eff, {i}), nullptr))
          ELSE IF ~ast_expect_token(i + 1, "TokenIdStringLiteral")
          THEN ast_invalid_token_error(Read(AdvN(Eff, p, 2), {i, i + 1}), i + 1)
          ELSE IF ~ast_expect_token(i + 2, "TokenIdSemicolon")
          THEN ast_invalid_token_error(Read(AdvN(Eff, p, 3), i..(i + 2)), i + 2)
          ELSE IF str.escape
          THEN AssertFail(Alloc(Read(AdvN(Eff, p, 3), i..(i + 2)), node))
          ELSE Go(Return(SetDirectiveList(Alloc(Read(AdvN(Eff, p, 3), i..(i + 2)), node),
                                          nullptr),
                         NewNode(Eff)))

(***************************************************************************)
(* Expressions.                                                            *)
(***************************************************************************)
ast_parse_fn_call_param_list ==
    /\ At("ast_parse_fn_call_param_list", "entry")
    /\ LET i == Top.ti
       IN IF ~ast_expect_token(i, "TokenIdLParen")
          THEN ast_invalid_token_error(Read(AdvN(Eff, Depth, 1), {i}), i)
          ELSE IF TokId(i + 1) = "TokenIdRParen"
          THEN Go(Return(Store(Read(AdvN(Eff, Depth, 2), {i, i + 1}), Top.tip, i + 2), nullptr))
          ELSE Go(Call(Read(AdvN(Eff, Depth, 1), {i, i + 1}), "expression",
                       Frame("ast_parse_expression", TRUE, Depth, 0, nullptr)))

\* params->append(expr), then `)` or `,`
ast_parse_fn_call_param_list_next ==
    /\ At("ast_parse_fn_call_param_list", "expression")
    /\ LET i == Top.ti
           e1 == Read(AdvN([Eff EXCEPT !.nodes[Top.node].data.params = Append(@, ret)], Depth, 1),
                      {i})
       IN IF TokId(i) = "TokenIdRParen"
          THEN Go(Return(Store(e1, Top.tip, i + 1), nullptr))
          ELSE IF ~ast_expect_token(i, "TokenIdComma")
          THEN ast_invalid_token_error(e1, i)
          ELSE Go(Call(e1, "expression",
                       Frame("ast_parse_expression", TRUE, Depth, 0, nullptr)))

ast_parse_grouped_expr ==
    /\ At("ast_parse_grouped_expr", "entry")
    /\ LET p == Top.tip
           i == Deref(p)
       IN IF TokId(i) # "TokenIdLParen"
          THEN IF Top.mandatory
               THEN ast_invalid_token_error(Read(Eff, {i}), i)
               ELSE Go(Return(Read(Eff, {i}), nullptr))
          ELSE Go(Call(AdvBy(Read(Eff, {i}), p, 1), "expression",
                       Frame("ast_parse_expression", TRUE, p, 0, nullptr)))

ast_parse_grouped_expr_r_paren ==
    /\ At("ast_parse_grouped_expr", "expression")
    /\ LET p == Top.tip
           i == Deref(p)
           e1 == AdvBy(Read(Eff, {i}), p, 1)
       IN IF ~ast_expect_token(i, "TokenIdRParen")
          THEN ast_invalid_token_error(e1, i)
          ELSE Go(Return(e1, ret))

ast_parse_primary_expr ==
    /\ At("ast_parse_primary_expr", "entry")
    /\ LET p == Top.tip
           i == Deref(p)
           id == NewNode(Eff)
           str == parse_string_literal(i)
           leaf(type, data) == Alloc(Read(Eff, {i}), ast_create_node(type, i, data))
       IN CASE TokId(i) = "TokenIdNumberLiteral" ->
                 Go(Return(AdvBy(leaf("NodeTypeNumberLiteral", [number |-> ast_buf_from_token(i)]),
                                 p, 1), id))
            [] TokId(i) = "TokenIdStringLiteral" ->
                 IF str.escape THEN AssertFail(leaf("NodeTypeStringLiteral", [string |-> str.out]))
                 ELSE Go(Return(AdvBy(leaf("NodeTypeStringLiteral", [string |-> str.out]), p, 1),
                                id))
            [] TokId(i) = "TokenIdKeywordUnreachable" ->
                 Go(Return(AdvBy(leaf("NodeTypeUnreachable", [none |-> 0]), p, 1), id))
            [] TokId(i) = "TokenIdSymbol" ->
                 Go(Return(AdvBy(leaf("NodeTypeSymbol", [symbol |-> ast_buf_from_token(i)]), p, 1),
                           id))
            [] OTHER ->
                 Go(Call(SetTok(Read(Eff, {i}), i), "block",
                         Frame("ast_parse_block", FALSE, p, 0, nullptr)))

ast_parse_primary_expr_grouped ==
    /\ At("ast_parse_primary_expr", "block")
    /\ IF ret # nullptr THEN Go(Return(Eff, ret))
       ELSE Go(Call(Eff, "grouped_expr",
                    Frame("ast_parse_grouped_expr", FALSE, Top.tip, 0, nullptr)))

ast_parse_primary_expr_end ==
    /\ At("ast_parse_primary_expr", "grouped_expr")
    /\ IF ret # nullptr THEN Go(Return(Eff, ret))
       ELSE IF ~Top.mandatory THEN Go(Return(Eff, nullptr))
       ELSE ast_invalid_token_error(Eff, Top.tok)

ast_parse_fn_call_expr ==
    /\ At("ast_parse_fn_call_expr", "entry")
    /\ Go(Call(Eff, "primary_expr",
               Frame("ast_parse_primary_expr", Top.mandatory, Top.tip, 0, nullptr)))

ast_parse_fn_call_expr_params ==
    /\ At("ast_parse_fn_call_expr", "primary_expr")
    /\ LET p == Top.tip
           i == Deref(p)
           node == ast_create_node_with_node(nodes, "NodeTypeFnCallExpr", ret,
                                             [fn_ref_expr |-> ret, params |-> <<>>])
       IN IF ret = nullptr THEN Go(Return(Eff, nullptr))
          ELSE IF TokId(i) # "TokenIdLParen" THEN Go(Return(Read(Eff, {i}), ret))
          ELSE Go(Call(SetNode(Alloc(Read(Eff, {i}), node), NewNode(Eff)), "params",
                       Frame("ast_parse_fn_call_param_list", FALSE, p, i, NewNode(Eff))))

ast_parse_fn_call_expr_return ==
    /\ At("ast_parse_fn_call_expr", "params")
    /\ Go(Return(Eff, Top.node))

tok_to_prefix_op(id) ==
    CASE id = "TokenIdBang" -> "PrefixOpBoolNot"
      [] id = "TokenIdDash" -> "PrefixOpNegation"
      [] id = "TokenIdTilde" -> "PrefixOpBinNot"
      [] OTHER -> "PrefixOpInvalid"

\* the prefix operator in front of another PrefixOpExpression
ast_parse_prefix_op_expr_nested ==
    /\ At("ast_parse_prefix_op_expr", "entry")
    /\ LET p == Top.tip
           i == Deref(p)
           prefix_op == tok_to_prefix_op(TokId(i))
       IN IF prefix_op = "PrefixOpInvalid"
          THEN Go(Call(Read(Eff, {i}), "fn_call_expr",
                       Frame("ast_parse_fn_call_expr", Top.mandatory, p, 0, nullptr)))
          ELSE Go(Call(SetOp(SetTok(AdvBy(Read(Eff, {i}), p, 1), i), prefix_op), "primary_expr",
                       Frame("ast_parse_prefix_op_expr", TRUE, p, 0, nullptr)))

ast_parse_prefix_op_expr ==
    /\ At("ast_parse_prefix_op_expr", "entry")
    /\ LET p == Top.tip
           i == Deref(p)
           prefix_op == tok_to_prefix_op(TokId(i))
       IN IF prefix_op = "PrefixOpInvalid"
          THEN Go(Call(Read(Eff, {i}), "fn_call_expr",
                       Frame("ast_parse_fn_call_expr", Top.mandatory, p, 0, nullptr)))
          ELSE Go(Call(SetOp(SetTok(AdvBy(Read(Eff, {i}), p, 1), i), prefix_op), "primary_expr",
                       Frame("ast_parse_fn_call_expr", TRUE, p, 0, nullptr)))

\* return ast_parse_fn_call_expr(pc, token_index, mandatory)
ast_parse_prefix_op_expr_return ==
    /\ At("ast_parse_prefix_op_expr", "fn_call_expr")
    /\ Go(Return(Eff, ret))

ast_parse_prefix_op_expr_node ==
    /\ At("ast_parse_prefix_op_expr", "primary_expr")
    /\ LET node == ast_create_node("NodeTypePrefixOpExpr", Top.tok,
                                   [primary_expr |-> ret, prefix_op |-> Top.op])
       IN Go(Return(Alloc(Eff, node), NewNode(Eff)))

ast_parse_cast_expression ==
    /\ At("ast_parse_cast_expression", "entry")
    /\ Go(Call(Eff, "prefix_op_expr",
               Frame("ast_parse_prefix_op_expr", Top.mandatory, Top.tip, 0, nullptr)))

ast_parse_cast_expression_as ==
    /\ At("ast_parse_cast_expression", "prefix_op_expr")
    /\ LET p == Top.tip
           i == Deref(p)
           node == ast_create_node("NodeTypeCastExpr", i,
                                   [prefix_op_expr |-> ret, type |-> nullptr])
       IN IF ret = nullptr THEN Go(Return(Eff, nullptr))
          ELSE IF TokId(i) # "TokenIdKeywordAs" THEN Go(Return(Read(Eff, {i}), ret))
          ELSE Go(Call(SetNode(Alloc(AdvBy(Read(Eff, {i}), p, 1), node), NewNode(Eff)), "type",
                       Frame("ast_parse_type", FALSE, p, i + 1, nullptr)))

ast_parse_cast_expression_type ==
    /\ At("ast_parse_cast_expression", "type")
    /\ Go(Return([Eff EXCEPT !.nodes[Top.node].data.type = ret], Top.node))

(* The ten binary levels have one shape: operand_1 from the next level with *)
(* the caller's mandatory flag, the level's operator if there is one, and   *)
(* then operand_2 from the next level, mandatory.                           *)
BinOperand1(next) ==
    Go(Call(Eff, "operand_1", Frame(next, Top.mandatory, Top.tip, 0, nullptr)))

\* op is what the level's tok_to_*_op makes of the current token
BinOperator(next, op) ==
    LET p == Top.tip
        i == Deref(p)
    IN IF ret = nullptr THEN Go(Return(Eff, nullptr))
       ELSE IF op = "BinOpTypeInvalid" THEN Go(Return(Read(Eff, {i}), ret))
       ELSE Go(Call(SetX(SetOp(SetTok(AdvBy(Read(Eff, {i}), p, 1), i), op), ret),
                    "operand_2", Frame(next, TRUE, p, 0, nullptr)))

BinOpData(op1, bin_op, op2) == [op1 |-> op1, bin_op |-> bin_op, op2 |-> op2]

\* the BinOpExpr positioned at the first token of the level
BinNode_first ==
    LET node == ast_create_node("NodeTypeBinOpExpr", Top.first, BinOpData(Top.x, Top.op, ret))
    IN Go(Return(Alloc(Eff, node), NewNode(Eff)))

BinNode ==
    LET node == ast_create_node("NodeTypeBinOpExpr", Top.tok, BinOpData(Top.x, Top.op, ret))
    IN Go(Return(Alloc(Eff, node), NewNode(Eff)))

\* the token the level looks at for its operator
Cur == TokId(Deref(Top.tip))

\* tok_to_mult_op with TokenIdPlus among the multiplicative operators
tok_to_mult_op_plus(id) ==
    CASE id = "TokenIdStar" -> "BinOpTypeMult"
      [] id = "TokenIdSlash" -> "BinOpTypeDiv"
      [] id = "TokenIdPercent" -> "BinOpTypeMod"
      [] id = "TokenIdPlus" -> "BinOpTypeAdd"
      [] OTHER -> "BinOpTypeInvalid"

tok_to_mult_op(id) ==
    CASE id = "TokenIdStar" -> "BinOpTypeMult"
      [] id = "TokenIdSlash" -> "BinOpTypeDiv"
      [] id = "TokenIdPercent" -> "BinOpTypeMod"
      [] OTHER -> "BinOpTypeInvalid"

tok_to_add_op(id) ==
    CASE id = "TokenIdPlus" -> "BinOpTypeAdd"
      [] id = "TokenIdDash" -> "BinOpTypeSub"
      [] OTHER -> "BinOpTypeInvalid"

tok_to_bit_shift_op(id) ==
    CASE id = "TokenIdBitShiftLeft" -> "BinOpTypeBitShiftLeft"
      [] id = "TokenIdBitShiftRight" -> "BinOpTypeBitShiftRight"
      [] OTHER -> "BinOpTypeInvalid"

tok_to_cmp_op(id) ==
    CASE id = "TokenIdCmpEq" -> "BinOpTypeCmpEq"
      [] id = "TokenIdCmpNotEq" -> "BinOpTypeCmpNotEq"
      [] id = "TokenIdCmpLessThan" -> "BinOpTypeCmpLessThan"
      [] id = "TokenIdCmpGreaterThan" -> "BinOpTypeCmpGreaterThan"
      [] id = "TokenIdCmpLessOrEq" -> "BinOpTypeCmpLessOrEq"
      [] id = "TokenIdCmpGreaterOrEq" -> "BinOpTypeCmpGreaterOrEq"
      [] OTHER -> "BinOpTypeInvalid"

\* the levels that compare the token id with their one operator
OneOp(id, token_id, bin_op) == IF id # token_id THEN "BinOpTypeInvalid" ELSE bin_op

ast_parse_mult_expr ==
    /\ At("ast_parse_mult_expr", "entry")
    /\ BinOperand1("ast_parse_cast_expression")
ast_parse_mult_expr_op ==
    /\ At("ast_parse_mult_expr", "operand_1")
    /\ BinOperator("ast_parse_cast_expression",
                   tok_to_mult_op(Cur))
ast_parse_mult_expr_node ==
    /\ At("ast_parse_mult_expr", "operand_2")
    /\ BinNode

ast_parse_add_expr ==
    /\ At("ast_parse_add_expr", "entry")
    /\ BinOperand1("ast_parse_mult_expr")
ast_parse_add_expr_op ==
    /\ At("ast_parse_add_expr", "operand_1")
    /\ BinOperator("ast_parse_mult_expr",
                   tok_to_add_op(Cur))
ast_parse_add_expr_node ==
    /\ At("ast_parse_add_expr", "operand_2")
    /\ BinNode

ast_parse_bit_shift_expr ==
    /\ At("ast_parse_bit_shift_expr", "entry")
    /\ BinOperand1("ast_parse_add_expr")
ast_parse_bit_shift_expr_op ==
    /\ At("ast_parse_bit_shift_expr", "operand_1")
    /\ BinOperator("ast_parse_add_expr",
                   tok_to_bit_shift_op(Cur))
ast_parse_bit_shift_expr_node ==
    /\ At("ast_parse_bit_shift_expr", "operand_2")
    /\ BinNode

ast_parse_bin_and_expr ==
    /\ At("ast_parse_bin_and_expr", "entry")
    /\ BinOperand1("ast_parse_bit_shift_expr")
ast_parse_bin_and_expr_op ==
    /\ At("ast_parse_bin_and_expr", "operand_1")
    /\ BinOperator("ast_parse_bit_shift_expr",
                   OneOp(Cur, "TokenIdBinAnd", "BinOpTypeBinAnd"))
ast_parse_bin_and_expr_node ==
    /\ At("ast_parse_bin_and_expr", "operand_2")
    /\ BinNode

ast_parse_bin_xor_expr ==
    /\ At("ast_parse_bin_xor_expr", "entry")
    /\ BinOperand1("ast_parse_bin_and_expr")
ast_parse_bin_xor_expr_op ==
    /\ At("ast_parse_bin_xor_expr", "operand_1")
    /\ BinOperator("ast_parse_bin_and_expr",
                   OneOp(Cur, "TokenIdBinXor", "BinOpTypeBinXor"))
ast_parse_bin_xor_expr_node ==
    /\ At("ast_parse_bin_xor_expr", "operand_2")
    /\ BinNode

ast_parse_bin_or_expr ==
    /\ At("ast_parse_bin_or_expr", "entry")
    /\ BinOperand1("ast_parse_bin_xor_expr")
ast_parse_bin_or_expr_op ==
    /\ At("ast_parse_bin_or_expr", "operand_1")
    /\ BinOperator("ast_parse_bin_xor_expr",
                   OneOp(Cur, "TokenIdBinOr", "BinOpTypeBinOr"))
ast_parse_bin_or_expr_node ==
    /\ At("ast_parse_bin_or_expr", "operand_2")
    /\ BinNode

ast_parse_comparison_expr ==
    /\ At("ast_parse_comparison_expr", "entry")
    /\ BinOperand1("ast_parse_bin_or_expr")
ast_parse_comparison_expr_op ==
    /\ At("ast_parse_comparison_expr", "operand_1")
    /\ BinOperator("ast_parse_bin_or_expr",
                   tok_to_cmp_op(Cur))
ast_parse_comparison_expr_node ==
    /\ At("ast_parse_comparison_expr", "operand_2")
    /\ BinNode

ast_parse_bool_and_expr ==
    /\ At("ast_parse_bool_and_expr", "entry")
    /\ BinOperand1("ast_parse_comparison_expr")
ast_parse_bool_and_expr_op ==
    /\ At("ast_parse_bool_and_expr", "operand_1")
    /\ BinOperator("ast_parse_comparison_expr",
                   OneOp(Cur, "TokenIdBoolAnd", "BinOpTypeBoolAnd"))
ast_parse_bool_and_expr_node ==
    /\ At("ast_parse_bool_and_expr", "operand_2")
    /\ BinNode

ast_parse_bool_or_expr ==
    /\ At("ast_parse_bool_or_expr", "entry")
    /\ BinOperand1("ast_parse_bool_and_expr")
ast_parse_bool_or_expr_op ==
    /\ At("ast_parse_bool_or_expr", "operand_1")
    /\ BinOperator("ast_parse_bool_and_expr",
                   OneOp(Cur, "TokenIdBoolOr", "BinOpTypeBoolOr"))
ast_parse_bool_or_expr_node ==
    /\ At("ast_parse_bool_or_expr", "operand_2")
    /\ BinNode

ast_parse_return_expr ==
    /\ At("ast_parse_return_expr", "entry")
    /\ LET p == Top.tip
           i == Deref(p)
           node == ast_create_node("NodeTypeReturnExpr", i, [expr |-> nullptr])
       IN IF TokId(i) = "TokenIdKeywordReturn"
          THEN Go(Call(SetNode(Alloc(AdvBy(Read(Eff, {i}), p, 1), node), NewNode(Eff)), "expr",
                       Frame("ast_parse_expression", FALSE, p, 0, nullptr)))
          ELSE IF Top.mandatory
          THEN ast_invalid_token_error(Read(Eff, {i}), i)
          ELSE Go(Return(Read(Eff, {i}), nullptr))

\* the ReturnExpr whose payload is never stored
ast_parse_return_expr_expr_none ==
    /\ At("ast_parse_return_expr", "expr")
    /\ Go(Return(Eff, Top.node))

\* node->data.return_expr.expr = ...; return node
ast_parse_return_expr_expr ==
    /\ At("ast_parse_return_expr", "expr")
    /\ Go(Return([Eff EXCEPT !.nodes[Top.node].data.expr = ret], Top.node))

ast_parse_expression ==
    /\ At("ast_parse_expression", "entry")
    /\ LET i == Deref(Top.tip)
       IN Go(Call(SetTok(Read(Eff, {i}), i), "return_expr",
                  Frame("ast_parse_return_expr", FALSE, Top.tip, 0, nullptr)))

ast_parse_expression_bool_or ==
    /\ At("ast_parse_expression", "return_expr")
    /\ IF ret # nullptr THEN Go(Return(Eff, ret))
       ELSE Go(Call(Eff, "bool_or_expr",
                    Frame("ast_parse_bool_or_expr", FALSE, Top.tip, 0, nullptr)))

ast_parse_expression_end ==
    /\ At("ast_parse_expression", "bool_or_expr")
    /\ IF ret # nullptr THEN Go(Return(Eff, ret))
       ELSE IF ~Top.mandatory THEN Go(Return(Eff, nullptr))
       ELSE ast_invalid_token_error(Eff, Top.tok)

(***************************************************************************)
(* Blocks and statements.                                                  *)
(***************************************************************************)
\* the block that steps over the token before it looks at it
ast_parse_block_early ==
    /\ At("ast_parse_block", "entry")
    /\ LET p == Top.tip
           i == Deref(p)
           node == ast_create_node("NodeTypeBlock", i, [statements |-> <<>>])
       IN IF TokId(i) # "TokenIdLBrace"
          THEN IF Top.mandatory
               THEN ast_invalid_token_error(Read(Eff, {i}), i)
               ELSE Go(Return(AdvBy(Read(Eff, {i}), p, 1), nullptr))
          ELSE Go(SetPc(SetNode(Alloc(AdvBy(Read(Eff, {i}), p, 1), node), NewNode(Eff)), "loop"))

ast_parse_block ==
    /\ At("ast_parse_block", "entry")
    /\ LET p == Top.tip
           i == Deref(p)
           node == ast_create_node("NodeTypeBlock", i, [statements |-> <<>>])
       IN IF TokId(i) # "TokenIdLBrace"
          THEN IF Top.mandatory
               THEN ast_invalid_token_error(Read(Eff, {i}), i)
               ELSE Go(Return(Read(Eff, {i}), nullptr))
          ELSE Go(SetPc(SetNode(Alloc(AdvBy(Read(Eff, {i}), p, 1), node), NewNode(Eff)), "loop"))

ast_parse_block_loop ==
    /\ At("ast_parse_block", "loop")
    /\ LET p == Top.tip
           i == Deref(p)
       IN IF TokId(i) = "TokenIdRBrace"
          THEN Go(Return(AdvBy(Read(Eff, {i}), p, 1), Top.node))
          ELSE Go(Call(Read(Eff, {i}), "statement",
                       Frame("ast_parse_statement", FALSE, p, 0, nullptr)))

ast_parse_block_append ==
    /\ At("ast_parse_block", "statement")
    /\ Go(SetPc([Eff EXCEPT !.nodes[Top.node].data.statements = Append(@, ret)], "loop"))

ast_parse_statement ==
    /\ At("ast_parse_statement", "entry")
    /\ Go(Call(Eff, "expression_statement",
               Frame("ast_parse_expression_statement", FALSE, Top.tip, 0, nullptr)))

ast_parse_statement_return ==
    /\ At("ast_parse_statement", "expression_statement")
    /\ Go(Return(Eff, ret))

ast_parse_expression_statement ==
    /\ At("ast_parse_expression_statement", "entry")
    /\ Go(Call(Eff, "expression", Frame("ast_parse_expression", TRUE, Top.tip, 0, nullptr)))

ast_parse_expression_statement_semicolon ==
    /\ At("ast_parse_expression_statement", "expression")
    /\ LET p == Top.tip
           i == Deref(p)
           e1 == AdvBy(Read(Eff, {i}), p, 1)
       IN IF ~ast_expect_token(i, "TokenIdSemicolon")
          THEN ast_invalid_token_error(e1, i)
          ELSE Go(Return(e1, ret))

(***************************************************************************)
(* Top level.                                                              *)
(***************************************************************************)
\* the head of the loop: collect the directives in front of the declaration
ast_parse_top_level_decls ==
    /\ At("ast_parse_top_level_decls", "entry")
    /\ LET i == Deref(Top.tip)
           l == Len(lists) + 1
       IN IF directive_list # nullptr
          THEN AssertFail(Read(Eff, {i}))
          ELSE Go(Call(SetTok(SetDirectiveList(AllocList(Read(Eff, {i})), l), i), "directives",
                       Frame("ast_parse_directives", FALSE, Top.tip, 0, l)))

\* the loop body with FnDef as the first alternative
ast_parse_top_level_decls_fn_def_first ==
    /\ At("ast_parse_top_level_decls", "directives")
    /\ Go(Call(Eff, "root_export_decl",
               Frame("ast_parse_fn_def", FALSE, Top.tip, 0, nullptr)))

ast_parse_top_level_decls_root_export_decl ==
    /\ At("ast_parse_top_level_decls", "directives")
    /\ Go(Call(Eff, "root_export_decl",
               Frame("ast_parse_root_export_decl", FALSE, Top.tip, 0, nullptr)))

\* the node put in front of the list instead
Continue_front ==
    SetPc([Eff EXCEPT !.nodes[Top.node].data.top_level_decls = <<ret>> \o @], "entry")

\* top_level_decls->append(node); continue
Continue == SetPc([Eff EXCEPT !.nodes[Top.node].data.top_level_decls = Append(@, ret)], "entry")

ast_parse_top_level_decls_fn_def ==
    /\ At("ast_parse_top_level_decls", "root_export_decl")
    /\ IF ret # nullptr THEN Go(Continue)
       ELSE Go(Call(Eff, "fn_def", Frame("ast_parse_fn_def", FALSE, Top.tip, 0, nullptr)))

ast_parse_top_level_decls_extern_block ==
    /\ At("ast_parse_top_level_decls", "fn_def")
    /\ IF ret # nullptr THEN Go(Continue)
       ELSE Go(Call(Eff, "extern_block",
                    Frame("ast_parse_extern_block", FALSE, Top.tip, 0, nullptr)))

ast_parse_top_level_decls_use ==
    /\ At("ast_parse_top_level_decls", "extern_block")
    /\ IF ret # nullptr THEN Go(Continue)
       ELSE Go(Call(Eff, "use", Frame("ast_parse_use", FALSE, Top.tip, 0, nullptr)))

\* the end of the loop body with the diagnostic at the current token
ast_parse_top_level_decls_end_here ==
    /\ At("ast_parse_top_level_decls", "use")
    /\ IF ret # nullptr THEN Go(Continue)
       ELSE IF Len(lists[directive_list]) > 0
       THEN ast_error(Eff, Deref(Top.tip), Chars("invalid directive"))
       ELSE Go(Return(SetDirectiveList(Eff, nullptr), nullptr))

ast_parse_top_level_decls_end ==
    /\ At("ast_parse_top_level_decls", "use")
    /\ IF ret # nullptr THEN Go(Continue)
       ELSE IF Len(lists[directive_list]) > 0
       THEN ast_error(Eff, Top.tok, Chars("invalid directive"))
       ELSE Go(Return(SetDirectiveList(Eff, nullptr), nullptr))

ast_parse_root ==
    /\ At("ast_parse_root", "entry")
    /\ LET i == Deref(Top.tip)
           node == ast_create_node("NodeTypeRoot", i, [top_level_decls |-> <<>>])
       IN Go(Call(SetNode(Alloc(Read(Eff, {i}), node), NewNode(Eff)), "top_level_decls",
                  Frame("ast_parse_top_level_decls", FALSE, Top.tip, 0, NewNode(Eff))))

\* ast_parse_root as it would be without the comparison with length - 1
ast_parse_root_check_none ==
    /\ At("ast_parse_root", "top_level_decls")
    /\ Go(Return(Eff, Top.node))

\* the cursor has to be at the last token
ast_parse_root_check ==
    /\ At("ast_parse_root", "top_level_decls")
    /\ LET i == Deref(Top.tip)
       IN IF i # Len(tokens) - 1
          THEN ast_invalid_token_error(Read(Eff, {i}), i)
          ELSE Go(Return(Eff, Top.node))

ast_parse ==
    /\ At("ast_parse", "entry")
    /\ Go(Call(Eff, "root", Frame("ast_parse_root", FALSE, 0, 0, nullptr)))

\* pc.root = ...; return pc.root
ast_parse_return ==
    /\ At("ast_parse", "root")
    /\ root' = ret
    /\ status' = "returned"
    /\ stack' = Pop(stack)
    /\ UNCHANGED <<buf, tokens, token_index, directive_list, nodes, lists, ret,
                   diags, reads, cursor_writes>>

(***************************************************************************)
(* Reading the heap as a tree.  The shape of a node is                     *)
(* <<tag, text, children>>: the tag is the operator of a BinOpExpr or      *)
(* PrefixOpExpr and the node type otherwise, the text is the lexeme or     *)
(* name the node holds, the children are the shapes of its child slots in  *)
(* the order of the struct (an empty slot has no shape).                   *)
(***************************************************************************)
RECURSIVE Shape(_)
ShapeList(ids) == [k \in 1..Len(ids) |-> Shape(ids[k])]
Opt(id) == IF id = nullptr THEN <<>> ELSE <<Shape(id)>>
DirectivesOf(l) == IF l = nullptr THEN <<>> ELSE lists[l]
Shape(id) ==
    LET n == nodes[id]
        t == n.type
        d == n.data
    IN CASE t = "NodeTypeRoot" -> <<t, <<>>, ShapeList(d.top_level_decls)>>
         [] t = "NodeTypeRootExportDecl" -> <<t, d.type \o <<" ">> \o d.name, <<>>>>
         [] t = "NodeTypeUse" -> <<t, d.path, <<>>>>
         [] t = "NodeTypeExternBlock" -> <<t, <<>>, ShapeList(d.fn_decls)>>
         [] t = "NodeTypeFnDecl" -> <<t, <<>>, Opt(d.fn_proto)>>
         [] t = "NodeTypeFnDef" -> <<t, <<>>, Opt(d.fn_proto) \o Opt(d.body)>>
         [] t = "NodeTypeFnProto" -> <<d.visib_mod, d.name, ShapeList(d.params) \o Opt(d.return_type)>>
         [] t = "NodeTypeParamDecl" -> <<t, d.name, Opt(d.type)>>
         [] t = "NodeTypeType" ->
              IF d.type = "AstNodeTypeTypePrimitive" THEN <<t, d.primitive_name, <<>>>>
              ELSE <<IF d.is_const THEN "const" ELSE "mut", <<>>, Opt(d.child_type)>>
         [] t = "NodeTypeBlock" -> <<t, <<>>, ShapeList(d.statements)>>
         [] t = "NodeTypeBinOpExpr" -> <<d.bin_op, <<>>, Opt(d.op1) \o Opt(d.op2)>>
         [] t = "NodeTypePrefixOpExpr" -> <<d.prefix_op, <<>>, Opt(d.primary_expr)>>
         [] t = "NodeTypeCastExpr" -> <<t, <<>>, Opt(d.prefix_op_expr) \o Opt(d.type)>>
         [] t = "NodeTypeFnCallExpr" -> <<t, <<>>, Opt(d.fn_ref_expr) \o ShapeList(d.params)>>
         [] t = "NodeTypeReturnExpr" -> <<t, <<>>, Opt(d.expr)>>
         [] t = "NodeTypeNumberLiteral" -> <<t, d.number, <<>>>>
         [] t = "NodeTypeStringLiteral" -> <<t, d.string, <<>>>>
         [] t = "NodeTypeSymbol" -> <<t, d.symbol, <<>>>>
         [] t = "NodeTypeUnreachable" -> <<t, <<>>, <<>>>>
         [] t = "NodeTypeDirective" -> <<t, d.name \o <<" ">> \o d.param, <<>>>>

(***************************************************************************)
(* Inputs: token sequences as the lexer delivers them, EOF last.           *)
(***************************************************************************)
Letter(i) == <<"a", "b", "c", "d", "e", "g", "h", "k">>[i]

Directive(c) == <<NumberSign, Sym(c), LParen, Str(<<"c">>), RParen>>
\* k directives in a row
RECURSIVE Dirs(_)
Dirs(k) == IF k = 0 THEN <<>> ELSE Dirs(k - 1) \o Directive(Letter(k))

\* a type with d levels of pointer, `const` and `mut` taking turns
RECURSIVE TypeToks(_, _)
TypeToks(d, leaf) ==
    IF d = 0 THEN <<leaf>>
    ELSE <<Star, IF d % 2 = 1 THEN KwConst ELSE KwMut>> \o TypeToks(d - 1, leaf)

\* n parameters of pointer depth d
RECURSIVE ParamToks(_, _)
ParamToks(n, d) ==
    IF n = 0 THEN <<>>
    ELSE (IF n = 1 THEN <<>> ELSE ParamToks(n - 1, d) \o <<Comma>>)
         \o <<Sym(Letter(n)), Colon>> \o TypeToks(d, Sym("T"))

ProtoToks(prefix, n, d, rt) ==
    prefix \o <<KwFn, Sym("f"), LParen>> \o ParamToks(n, d) \o <<RParen>> \o rt

ReturnTypes ==
    {<<>>, <<Arrow, Sym("T")>>, <<Arrow, KwUnreachable>>}
    \cup {<<Arrow>> \o TypeToks(d, Sym("T")) : d \in 1..MaxPtrDepth}

Protos ==
    {ProtoToks(prefix, n, d, rt) :
        prefix \in {<<>>, <<KwPub>>, <<KwExport>>}, n \in 0..MaxParams,
        d \in 0..MaxPtrDepth, rt \in ReturnTypes}

FnDefOf(body) == <<KwFn, Sym("f"), LParen, RParen, LBrace>> \o body \o <<RBrace>>
Stmt(expr) == FnDefOf(expr \o <<Semicolon>>)

ExternOf(items) == <<KwExtern, LBrace>> \o items \o <<RBrace>>
FnDeclToks == <<KwFn, Sym("p"), LParen, RParen, Semicolon>>

\* the declarations a run of directives is put in front of; <<>> leaves the
\* run without a declaration
Decls ==
    { <<>>,
      <<KwExport, Sym("e"), Str(<<"h">>), Semicolon>>,
      <<KwUse, Str(<<"s">>), Semicolon>>,
      FnDefOf(<<>>),
      <<KwPub>> \o FnDefOf(<<>>),
      <<KwExport>> \o FnDefOf(<<>>),
      <<RParen>>, <<Semicolon>>, <<Sym("x")>>,
      ExternOf(<<KwUse, Str(<<"s">>), Semicolon>>), ExternOf(<<KwExtern, LBrace, RBrace>>) }
    \cup {ExternOf(Dirs(j) \o item) : j \in 0..MaxDirectives, item \in {<<>>, FnDeclToks}}
    \cup {ExternOf(FnDeclToks \o Dirs(j) \o FnDeclToks) : j \in 0..MaxDirectives}

DeclPrograms ==
    {Dirs(k) \o d : k \in 0..MaxDirectives, d \in Decls}
    \cup {Dirs(k) \o d1 \o Dirs(j) \o d2 :
            k \in 0..1, j \in 0..1,
            d1 \in {<<KwUse, Str(<<"s">>), Semicolon>>, FnDefOf(<<>>), ExternOf(<<>>)},
            d2 \in Decls}

ProtoPrograms ==
    {pr \o <<LBrace, RBrace>> : pr \in Protos}
    \cup {ExternOf(pr \o <<Semicolon>>) : pr \in Protos}
    \cup {ExternOf(pr \o <<LBrace, RBrace>>) : pr \in Protos}
    \cup {pr \o <<Semicolon>> : pr \in Protos}

\* the binary operators, by precedence band from the loosest (1) up
BinOps ==
    <<BoolOr, BoolAnd, CmpEq, CmpNotEq, CmpLess, CmpGreater, CmpLessEq, CmpGreaterEq,
      BinOr, BinXor, BinAnd, ShiftLeft, ShiftRight, Plus, Dash, Star, Slash, Percent>>

Band(id) ==
    CASE id = "TokenIdBoolOr" -> 1
      [] id = "TokenIdBoolAnd" -> 2
      [] id \in {"TokenIdCmpEq", "TokenIdCmpNotEq", "TokenIdCmpLessThan",
                 "TokenIdCmpGreaterThan", "TokenIdCmpLessOrEq", "TokenIdCmpGreaterOrEq"} -> 3
      [] id = "TokenIdBinOr" -> 4
      [] id = "TokenIdBinXor" -> 5
      [] id = "TokenIdBinAnd" -> 6
      [] id \in {"TokenIdBitShiftLeft", "TokenIdBitShiftRight"} -> 7
      [] id \in {"TokenIdPlus", "TokenIdDash"} -> 8
      [] id \in {"TokenIdStar", "TokenIdSlash", "TokenIdPercent"} -> 9
      [] OTHER -> 0

\* a1 o1 a2 o2 a1 o1 ... with n operands
RECURSIVE Chain(_, _, _)
Chain(n, o1, o2) ==
    IF n = 1 THEN <<Sym(Letter(1))>>
    ELSE Chain(n - 1, o1, o2) \o <<IF n % 2 = 0 THEN o1 ELSE o2, Sym(Letter(n))>>

Chains ==
    {Chain(n, BinOps[i], BinOps[j]) : n \in 2..MaxChain, i \in 1..Len(BinOps), j \in 1..Len(BinOps)}

Sa == Sym("a")
Sb == Sym("b")
Sc == Sym("c")
Sf == Sym("f")
Sx == Sym("x")
TT == Sym("T")
UU == Sym("U")

Exprs ==
    { <<Sa>>, <<Num("1")>>, <<Str(<<"s">>)>>, <<KwUnreachable>>, <<>>,
      <<Num("1"), Plus, Num("2"), Star, Num("3"), Dash, Num("4")>>,
      <<Num("1"), Plus>>,
      <<Sa, KwAs, TT, Star, Sb>>, <<Bang, Sa, Plus, Sb>>, <<Dash, Sa>>, <<Tilde, Sa>>,
      <<Dash, Sa, Star, Sb>>, <<Sa, Star, Dash, Sb>>, <<Sa, Dash, Dash, Sb>>,
      <<Bang, Bang, Sa>>, <<Sx, KwAs, TT, KwAs, UU>>, <<Sf, LParen, RParen, LParen, RParen>>,
      <<LParen, Sx, KwAs, TT, RParen, KwAs, UU>>,
      <<LParen, Sf, LParen, RParen, RParen, LParen, RParen>>,
      <<Sf, LParen, RParen>>, <<Sf, LParen, Sa, RParen>>, <<Sf, LParen, Sa, Comma, Sb, RParen>>,
      <<Sf, LParen, Sa, Comma, RParen>>, <<Sf, LParen, Sa, Sb, RParen>>,
      <<Sf, LParen, Comma, RParen>>, <<Sf, LParen, Sa, Plus, Sb, Comma, Sf, LParen, Sc, RParen, RParen>>,
      <<Bang, Sf, LParen, Sa, RParen, KwAs, TT>>,
      <<LParen, Sa, RParen>>, <<LParen, LParen, Sa, RParen, RParen>>, <<LParen, Sa>>, <<LParen, RParen>>,
      <<LParen, Sa, Plus, Sb, RParen, Star, Sc>>, <<Sa, Star, LParen, Sb, Plus, Sc, RParen>>,
      <<LParen, Sa, RParen, LParen, Sb, RParen>>, <<LParen, Sa, Plus, Sb, RParen, LParen, Sc, RParen>>,
      <<LParen, Sf, RParen, LParen, Sa, RParen, KwAs, TT, Star, Sb>>,
      <<KwReturn>>, <<KwReturn, Sa>>, <<KwReturn, KwReturn, Sa>>, <<KwReturn, Sa, Plus, Sb>>,
      <<Sa, Plus, KwReturn, Sb>>, <<LParen, KwReturn, RParen>>, <<Sf, LParen, KwReturn, Sa, RParen>>,
      <<LBrace, RBrace>>, <<LBrace, Sa, Semicolon, RBrace>>,
      <<LBrace, Sa, Semicolon, Sb, Semicolon, RBrace>>, <<LBrace, Sa, RBrace>>,
      <<LBrace, KwReturn, Semicolon, RBrace, Plus, Sa>>,
      <<Sa, KwAs, KwUnreachable>>, <<Sa, KwAs>>, <<Sa, KwAs, Star, TT>>,
      <<Sa, KwAs, TT, Plus, Sb, KwAs, UU>>,
      <<Sa, Semicolon, Sb>>, <<KwReturn, Sa, Semicolon, KwReturn>>,
      <<KwReturn, KwReturn>>, <<LBrace, KwReturn, RBrace>>, <<KwReturn, Bang>> }
    \cup {<<Sa, KwAs>> \o TypeToks(d, TT) : d \in 1..MaxPtrDepth}
    \cup {<<Sa, BinOps[k]>> : k \in 1..Len(BinOps)}
    \cup Chains

ExprPrograms == {Stmt(e) : e \in Exprs}

\* parameter lists that are not lists of ParamDecls with `,` in between
BadParams ==
    { <<Sa, Colon, TT, Comma>>, <<Sa, Colon, TT, Sb, Colon, TT>>, <<Comma>>,
      <<Sa, Colon, TT, Semicolon>>, <<Sa, Colon, TT, Comma, Comma, Sb, Colon, TT>>,
      <<Sa, TT>>, <<Sa, Colon>>, <<Colon, TT>> }

BadParamPrograms ==
    {<<KwFn, Sf, LParen>> \o ps \o <<RParen, LBrace, RBrace>> : ps \in BadParams}

\* every proper beginning of these programs is an input, too
Truncated ==
    { <<KwPub, KwFn, Sym("g"), LParen, Sa, Colon, TT, Comma, Sb, Colon, TT, RParen, Arrow, TT,
        LBrace, KwReturn, Sa, Plus, Sb, Semicolon, RBrace>>,
      ExternOf(Directive("l") \o <<KwFn, Sym("p"), LParen, Sym("s"), Colon, Star, KwConst, TT,
                                   RParen, Arrow, TT, Semicolon>>),
      Directive("l") \o <<KwUse, Str(<<"s">>), Semicolon>>,
      Directive("l") \o <<KwExport, Sym("e"), Str(<<"h">>), Semicolon>>,
      <<KwExport>> \o Stmt(<<Bang, Sf, LParen, Sa, Comma, LParen, Sb, RParen, RParen, KwAs, Star,
                             KwMut, TT>>),
      Stmt(<<KwReturn, LBrace, Sa, Star, Sb, Semicolon, RBrace>>) }

\* what a string literal is made of between its quotes: a plain byte, or a
\* backslash and the byte behind it
Units ==
    {<<"a">>, <<"n">>} \cup {<<"\\", c>> : c \in {"\\", "r", "n", "t", "\"", "x"}}

\* the contents of up to k units
RECURSIVE Contents(_)
Contents(k) ==
    IF k = 0 THEN {<<>>}
    ELSE Contents(k - 1) \cup {s \o u : s \in Contents(k - 1), u \in Units}

\* "\\\\\n\r\t\"" between its quotes
RoundTrip == <<"\\", "\\", "\\", "\\", "\\", "n", "\\", "r", "\\", "t", "\\", "\"">>

UseOf(s) == <<KwUse, Str(s), Semicolon>>

\* string literals in each of the four places that decode one
StringPrograms ==
    {UseOf(s) : s \in Contents(MaxUnits) \cup {RoundTrip, SubSeq(RoundTrip, 3, 12)}}
    \cup {<<KwExport, Sym("e"), Str(s), Semicolon>> : s \in Contents(1)}
    \cup {<<NumberSign, Sym("l"), LParen, Str(s), RParen>> \o UseOf(s) : s \in Contents(1)}
    \cup {Stmt(<<Str(s)>>) : s \in Contents(1)}

Prefixes(S) == UNION {{SubSeq(p, 1, k) : k \in 0..Len(p)} : p \in S}

Programs ==
    DeclPrograms \cup ProtoPrograms \cup ExprPrograms \cup Prefixes(Truncated)
    \cup StringPrograms \cup BadParamPrograms

Init ==
    /\ \E prog \in Programs :
          /\ tokens = Lex(prog \o <<Eof>>)
          /\ buf = SourceOf(prog \o <<Eof>>, 1)
    /\ token_index = 0
    /\ directive_list = nullptr
    /\ root = nullptr
    /\ nodes = <<>>
    /\ lists = <<>>
    /\ stack = <<Frame("ast_parse", FALSE, 0, 0, nullptr)>>
    /\ ret = nullptr
    /\ diags = <<>>
    /\ status = "running"
    /\ reads = {}
    /\ cursor_writes = {}

Next ==
    \/ ast_parse_directive
    \/ ast_parse_directives
    \/ ast_parse_directives_append
    \/ ast_parse_type
    \/ ast_parse_type_child
    \/ ast_parse_param_decl
    \/ ast_parse_param_decl_type
    \/ ast_parse_param_decl_list
    \/ ast_parse_param_decl_list_next
    \/ ast_parse_fn_proto
    \/ ast_parse_fn_proto_return_type
    \/ ast_parse_fn_proto_return
    \/ ast_parse_fn_def
    \/ ast_parse_fn_def_body
    \/ ast_parse_fn_def_return
    \/ ast_parse_fn_decl
    \/ ast_parse_fn_decl_semicolon
    \/ ast_parse_extern_block
    \/ ast_parse_extern_block_loop
    \/ ast_parse_extern_block_item
    \/ ast_parse_extern_block_append
    \/ ast_parse_root_export_decl
    \/ ast_parse_use
    \/ ast_parse_fn_call_param_list
    \/ ast_parse_fn_call_param_list_next
    \/ ast_parse_grouped_expr
    \/ ast_parse_grouped_expr_r_paren
    \/ ast_parse_primary_expr
    \/ ast_parse_primary_expr_grouped
    \/ ast_parse_primary_expr_end
    \/ ast_parse_fn_call_expr
    \/ ast_parse_fn_call_expr_params
    \/ ast_parse_fn_call_expr_return
    \/ ast_parse_prefix_op_expr
    \/ ast_parse_prefix_op_expr_return
    \/ ast_parse_prefix_op_expr_node
    \/ ast_parse_cast_expression
    \/ ast_parse_cast_expression_as
    \/ ast_parse_cast_expression_type
    \/ ast_parse_mult_expr
    \/ ast_parse_mult_expr_op
    \/ ast_parse_mult_expr_node
    \/ ast_parse_add_expr
    \/ ast_parse_add_expr_op
    \/ ast_parse_add_expr_node
    \/ ast_parse_bit_shift_expr
    \/ ast_parse_bit_shift_expr_op
    \/ ast_parse_bit_shift_expr_node
    \/ ast_parse_bin_and_expr
    \/ ast_parse_bin_and_expr_op
    \/ ast_parse_bin_and_expr_node
    \/ ast_parse_bin_xor_expr
    \/ ast_parse_bin_xor_expr_op
    \/ ast_parse_bin_xor_expr_node
    \/ ast_parse_bin_or_expr
    \/ ast_parse_bin_or_expr_op
    \/ ast_parse_bin_or_expr_node
    \/ ast_parse_comparison_expr
    \/ ast_parse_comparison_expr_op
    \/ ast_parse_comparison_expr_node
    \/ ast_parse_bool_and_expr
    \/ ast_parse_bool_and_expr_op
    \/ ast_parse_bool_and_expr_node
    \/ ast_parse_bool_or_expr
    \/ ast_parse_bool_or_expr_op
    \/ ast_parse_bool_or_expr_node
    \/ ast_parse_return_expr
    \/ ast_parse_return_expr_expr
    \/ ast_parse_expression
    \/ ast_parse_expression_bool_or
    \/ ast_parse_expression_end
    \/ ast_parse_block
    \/ ast_parse_block_loop
    \/ ast_parse_block_append
    \/ ast_parse_statement
    \/ ast_parse_statement_return
    \/ ast_parse_expression_statement
    \/ ast_parse_expression_statement_semicolon
    \/ ast_parse_top_level_decls
    \/ ast_parse_top_level_decls_root_export_decl
    \/ ast_parse_top_level_decls_fn_def
    \/ ast_parse_top_level_decls_extern_block
    \/ ast_parse_top_level_decls_use
    \/ ast_parse_top_level_decls_end
    \/ ast_parse_root
    \/ ast_parse_root_check
    \/ ast_parse
    \/ ast_parse_return

Spec == Init /\ [][Next]_vars

\* ast_parse is one call that runs on until it returns or exits: a step that
\* can be taken is taken
FairSpec == Spec /\ WF_vars(Next)

(***************************************************************************)
(* Properties.                                                             *)
(***************************************************************************)
\* the diagnostic dg is an invalid-token diagnostic for the token at index i
IsInvalidToken(dg, i) ==
    /\ InRange(i)
    /\ dg.line_start = tokens[i + 1].start_line
    /\ dg.column_start = tokens[i + 1].start_column
    /\ Len(dg.msg) >= Len(Chars("invalid token"))
    /\ SubSeq(dg.msg, 1, Len(Chars("invalid token"))) = Chars("invalid token")

\* the children of a node: its child slots and the members of its lists
Kids(id) ==
    LET t == nodes[id].type
        d == nodes[id].data
        set(ids) == {ids[k] : k \in 1..Len(ids)}
    IN (CASE t = "NodeTypeRoot" -> set(d.top_level_decls)
          [] t = "NodeTypeRootExportDecl" -> set(DirectivesOf(d.directives))
          [] t = "NodeTypeUse" -> set(DirectivesOf(d.directives))
          [] t = "NodeTypeExternBlock" -> set(DirectivesOf(d.directives)) \cup set(d.fn_decls)
          [] t = "NodeTypeFnDecl" -> {d.fn_proto}
          [] t = "NodeTypeFnDef" -> {d.fn_proto, d.body}
          [] t = "NodeTypeFnProto" ->
               set(DirectivesOf(d.directives)) \cup set(d.params) \cup {d.return_type}
          [] t = "NodeTypeParamDecl" -> {d.type}
          [] t = "NodeTypeType" -> {d.child_type}
          [] t = "NodeTypeBlock" -> set(d.statements)
          [] t = "NodeTypeBinOpExpr" -> {d.op1, d.op2}
          [] t = "NodeTypePrefixOpExpr" -> {d.primary_expr}
          [] t = "NodeTypeCastExpr" -> {d.prefix_op_expr, d.type}
          [] t = "NodeTypeFnCallExpr" -> {d.fn_ref_expr} \cup set(d.params)
          [] t = "NodeTypeReturnExpr" -> {d.expr}
          [] OTHER -> {}) \ {nullptr}

RECURSIVE TreeNodes(_)
TreeNodes(id) == {id} \cup UNION {TreeNodes(k) : k \in Kids(id)}

\* the nodes of the tree that ast_parse returned
Tree == IF status = "returned" /\ root # nullptr THEN TreeNodes(root) ELSE {}

\* C1: ast_parse returns a Root only with the cursor on the final (EOF)
\* token; when the top-level loop stops on an earlier token the run ends with
\* an invalid-token diagnostic for the token at the cursor; the token
\* sequence <<EOF>> gives a Root without declarations.
C1_RootOnlyAtEof ==
    [][/\ status' = "returned" =>
            /\ token_index' = Len(tokens) - 1
            /\ root' # nullptr
            /\ nodes'[root'].type = "NodeTypeRoot"
       /\ (At("ast_parse_root", "top_level_decls") /\ token_index # Len(tokens) - 1) =>
            /\ status' = "exited"
            /\ Len(diags') = 1
            /\ IsInvalidToken(diags'[1], token_index)
       /\ (Len(tokens) = 1 /\ status' # "running") =>
            /\ status' = "returned"
            /\ nodes'[root'].data.top_level_decls = <<>>]_vars

\* the top-level loop stopped in front of a token that is not the last one
C1_Witness ==
    /\ status = "exited"
    /\ Top.fn = "ast_parse_root"
    /\ token_index < Len(tokens) - 1
    /\ token_index > 0

\* C2: at most one diagnostic per run; no step is taken once a diagnostic is
\* out (no cursor movement, no node, no root); a run ends with a root and no
\* diagnostic or with one diagnostic and no root.
C2_FailFast ==
    [][/\ diags = <<>>
       /\ Len(diags') <= 1
       /\ diags' # <<>> => (status' = "exited" /\ root' = nullptr)
       /\ status' = "returned" => (root' # nullptr /\ diags' = <<>>)
       /\ status' \in {"running", "returned", "exited"}]_vars

C2_Witness ==
    /\ status = "exited"
    /\ Len(diags) = 1
    /\ root = nullptr
    /\ nodes # <<>>

(***************************************************************************)
(* Expressions.                                                            *)
(***************************************************************************)
\* the first statement of the body of the first declaration
Statement1 ==
    nodes[nodes[nodes[root].data.top_level_decls[1]].data.body].data.statements[1]

\* the token sequence of `fn f() { expr; }`
IsStmt(expr) == tokens = Lex(Stmt(expr) \o <<Eof>>)

SymShape(c) == <<"NodeTypeSymbol", <<c>>, <<>>>>
NumShape(c) == <<"NodeTypeNumberLiteral", <<c>>, <<>>>>
TypeShape(c) == <<"NodeTypeType", <<c>>, <<>>>>
BinShape(op, l, r) == <<op, <<>>, <<l, r>>>>

\* the operator a token id stands for
BinOpOf(id) ==
    CASE id = "TokenIdBoolOr" -> "BinOpTypeBoolOr"
      [] id = "TokenIdBoolAnd" -> "BinOpTypeBoolAnd"
      [] id = "TokenIdCmpEq" -> "BinOpTypeCmpEq"
      [] id = "TokenIdCmpNotEq" -> "BinOpTypeCmpNotEq"
      [] id = "TokenIdCmpLessThan" -> "BinOpTypeCmpLessThan"
      [] id = "TokenIdCmpGreaterThan" -> "BinOpTypeCmpGreaterThan"
      [] id = "TokenIdCmpLessOrEq" -> "BinOpTypeCmpLessOrEq"
      [] id = "TokenIdCmpGreaterOrEq" -> "BinOpTypeCmpGreaterOrEq"
      [] id = "TokenIdBinOr" -> "BinOpTypeBinOr"
      [] id = "TokenIdBinXor" -> "BinOpTypeBinXor"
      [] id = "TokenIdBinAnd" -> "BinOpTypeBinAnd"
      [] id = "TokenIdBitShiftLeft" -> "BinOpTypeBitShiftLeft"
      [] id = "TokenIdBitShiftRight" -> "BinOpTypeBitShiftRight"
      [] id = "TokenIdPlus" -> "BinOpTypeAdd"
      [] id = "TokenIdDash" -> "BinOpTypeSub"
      [] id = "TokenIdStar" -> "BinOpTypeMult"
      [] id = "TokenIdSlash" -> "BinOpTypeDiv"
      [] id = "TokenIdPercent" -> "BinOpTypeMod"
      [] OTHER -> "BinOpTypeInvalid"

\* the band of an operator, by the token that stands for it
BandOfOp(op) ==
    LET ids == {BinOps[k].id : k \in 1..Len(BinOps)}
    IN Band(CHOOSE id \in ids : BinOpOf(id) = op)

\* the tree ((a1 o1 a2) o2 a3) o1 ... of the chain Chain(n, o1, o2)
RECURSIVE LeftNested(_, _, _)
LeftNested(n, o1, o2) ==
    IF n = 1 THEN SymShape(Letter(1))
    ELSE BinShape(BinOpOf((IF n % 2 = 0 THEN o1 ELSE o2).id),
                  LeftNested(n - 1, o1, o2), SymShape(Letter(n)))

\* the index of the token that starts at a line and column
TokenAt(line, column) == (line - 1) * TokensPerLine + (column - 1)

\* C3: a chain a1 op a2 op ... op an, n >= 3, of operators of one band
\* parses, and to the left-nested tree; `1 + 2 * 3 - 4;` gives
\* BinOpExpr(-, BinOpExpr(+, 1, BinOpExpr(*, 2, 3)), 4).
C3_LeftGrouping ==
    status # "running" =>
        /\ \A n \in 3..MaxChain : \A i, j \in 1..Len(BinOps) :
              (/\ Len(tokens) = 2 * n + 7
               /\ Band(BinOps[i].id) = Band(BinOps[j].id)
               /\ IsStmt(Chain(n, BinOps[i], BinOps[j])))
              => /\ status = "returned"
                 /\ Shape(Statement1) = LeftNested(n, BinOps[i], BinOps[j])
        /\ IsStmt(<<Num("1"), Plus, Num("2"), Star, Num("3"), Dash, Num("4")>>)
              => /\ status = "returned"
                 /\ Shape(Statement1) =
                       BinShape("BinOpTypeSub",
                                BinShape("BinOpTypeAdd", NumShape("1"),
                                         BinShape("BinOpTypeMult", NumShape("2"), NumShape("3"))),
                                NumShape("4"))

\* what the levels do with such a chain: the run ends at the second operator
\* of the band, with an invalid-token diagnostic for it
C3_SecondOperatorRejected ==
    status # "running" =>
        \A n \in 3..MaxChain : \A i, j \in 1..Len(BinOps) :
            (/\ Len(tokens) = 2 * n + 7
             /\ Band(BinOps[i].id) = Band(BinOps[j].id)
             /\ IsStmt(Chain(n, BinOps[i], BinOps[j])))
            => /\ status = "exited"
               /\ Len(diags) = 1
               /\ IsInvalidToken(diags[1], 8)

\* the operand k of a BinOpExpr, starting at token index i, is allowed there:
\* it is no BinOpExpr of a lower band, or it is in parentheses
OperandFits(n, k, i) ==
    (/\ nodes[k].type = "NodeTypeBinOpExpr"
     /\ BandOfOp(nodes[k].data.bin_op) < BandOfOp(nodes[n].data.bin_op))
    => TokId(i) = "TokenIdLParen"

\* C4: `a + b * c` parses as BinOp(+, a, BinOp(*, b, c)), `a * b + c` as
\* BinOp(+, BinOp(*, a, b), c), `a as T * b` as BinOp(*, Cast(a, T), b),
\* `!a + b` as BinOp(+, Prefix(!, a), b), `a && b || c` as
\* BinOp(||, BinOp(&&, a, b), c), and `a | b cmp c` as
\* BinOp(cmp, BinOp(|, a, b), c) for each of the six comparison operators; no
\* operand of a BinOpExpr is an unparenthesized BinOpExpr of a lower band.
C4_Precedence ==
    LET A == SymShape("a")
        B == SymShape("b")
        Cc == SymShape("c")
        Is(expr, shape) ==
            (status # "running" /\ IsStmt(expr))
            => (status = "returned" /\ Shape(Statement1) = shape)
    IN /\ Is(<<Sa, Plus, Sb, Star, Sc>>,
             BinShape("BinOpTypeAdd", A, BinShape("BinOpTypeMult", B, Cc)))
       /\ Is(<<Sa, Star, Sb, Plus, Sc>>,
             BinShape("BinOpTypeAdd", BinShape("BinOpTypeMult", A, B), Cc))
       /\ Is(<<Sa, KwAs, TT, Star, Sb>>,
             BinShape("BinOpTypeMult", <<"NodeTypeCastExpr", <<>>, <<A, TypeShape("T")>>>>, B))
       /\ Is(<<Bang, Sa, Plus, Sb>>,
             BinShape("BinOpTypeAdd", <<"PrefixOpBoolNot", <<>>, <<A>>>>, B))
       /\ Is(<<Sa, BoolAnd, Sb, BoolOr, Sc>>,
             BinShape("BinOpTypeBoolOr", BinShape("BinOpTypeBoolAnd", A, B), Cc))
       /\ \A cmp \in {CmpEq, CmpNotEq, CmpLess, CmpGreater, CmpLessEq, CmpGreaterEq} :
             Is(<<Sa, BinOr, Sb, cmp, Sc>>,
                BinShape(BinOpOf(cmp.id), BinShape("BinOpTypeBinOr", A, B), Cc))
       /\ \A n \in 1..Len(nodes) :
             nodes[n].type = "NodeTypeBinOpExpr" =>
                /\ OperandFits(n, nodes[n].data.op1, nodes[n].first)
                /\ OperandFits(n, nodes[n].data.op2,
                               TokenAt(nodes[n].line, nodes[n].column) + 1)

\* `a * ( b + c )` has been parsed: the operand of lower band is in parentheses
C4_Witness ==
    /\ status = "returned"
    /\ IsStmt(<<Sa, Star, LParen, Sb, Plus, Sc, RParen>>)
    /\ Shape(Statement1) =
          BinShape("BinOpTypeMult", SymShape("a"),
                   BinShape("BinOpTypeAdd", SymShape("b"), SymShape("c")))

(***************************************************************************)
(* Directives.                                                             *)
(***************************************************************************)
DeclTypes ==
    {"NodeTypeRootExportDecl", "NodeTypeUse", "NodeTypeExternBlock", "NodeTypeFnProto"}

\* the places <<declaration, position>> that hold the Directive node id
Holders(id) ==
    UNION {{<<n, k>> : k \in {j \in 1..Len(DirectivesOf(nodes[n].data.directives)) :
                                DirectivesOf(nodes[n].data.directives)[j] = id}} :
           n \in {m \in 1..Len(nodes) : nodes[m].type \in DeclTypes}}

\* the index of the first token behind the run of directives that token i is in
RECURSIVE RunEnd(_)
RunEnd(i) == IF TokId(i) = "TokenIdNumberSign" THEN RunEnd(i + Len(DirectiveTokens)) ELSE i

\* every Directive node is held once, by the declaration that starts where
\* its run of directives ends
AttachedOnce ==
    \A id \in 1..Len(nodes) :
        nodes[id].type = "NodeTypeDirective" =>
            \E h \in Holders(id) :
                /\ Holders(id) = {h}
                /\ nodes[h[1]].first = RunEnd(nodes[id].first)

\* C5: on a successful parse every Directive node is in the directive list of
\* exactly one declaration (RootExportDecl, Use, ExternBlock, FnProto), the
\* one that follows the run it was collected in; none is dropped; the step
\* that gives a declaration the pending list empties the pending slot.
C5_DirectiveAttachment ==
    [][/\ status' = "returned" => AttachedOnce'
       /\ \A n \in (Len(nodes) + 1)..Len(nodes') :
             nodes'[n].type \in DeclTypes =>
                /\ nodes'[n].data.directives = directive_list
                /\ directive_list' = nullptr]_vars

\* two declarations, each with directives of its own
C5_Witness ==
    /\ status = "returned"
    /\ \E m, n \in 1..Len(nodes) :
          /\ m # n
          /\ nodes[m].type \in DeclTypes
          /\ nodes[n].type \in DeclTypes
          /\ DirectivesOf(nodes[m].data.directives) # <<>>
          /\ DirectivesOf(nodes[n].data.directives) # <<>>

\* C6: directives collected and no declaration behind them (top level: none
\* of RootExportDecl, FnDef, ExternBlock, Use matched; extern block: the
\* closing brace is next) end the run with "invalid directive" at the `#` of
\* the first directive of the run; with no directive collected there is no
\* diagnostic.
C6_OrphanDirective ==
    [][LET top == At("ast_parse_top_level_decls", "use") /\ ret = nullptr
           ext == At("ast_parse_extern_block", "directives") /\ Cur = "TokenIdRBrace"
           run == lists[directive_list]
       IN (top \/ ext) =>
             IF run # <<>>
             THEN /\ status' = "exited"
                  /\ Len(diags') = 1
                  /\ diags'[1].msg = Chars("invalid directive")
                  /\ LET i == nodes[run[1]].first
                     IN /\ TokId(i) = "TokenIdNumberSign"
                        /\ \A k \in 1..Len(run) :
                              nodes[run[k]].first = i + (k - 1) * Len(DirectiveTokens)
                        /\ diags'[1].line_start = tokens[i + 1].start_line
                        /\ diags'[1].column_start = tokens[i + 1].start_column
             ELSE /\ diags' = <<>>
                  /\ status' = "running"]_vars

\* two directives at top level with no declaration behind them
C6_Witness ==
    /\ status = "exited"
    /\ Top.fn = "ast_parse_top_level_decls"
    /\ Len(diags) = 1
    /\ diags[1].msg = Chars("invalid directive")
    /\ Len(lists[directive_list]) = 2

(***************************************************************************)
(* Positions.                                                              *)
(***************************************************************************)
\* the index of the token a node is positioned at
PosOf(n) == TokenAt(nodes[n].line, nodes[n].column)

SamePos(m, n) == nodes[m].line = nodes[n].line /\ nodes[m].column = nodes[n].column

\* C7 as it was stated: every node of the tree is positioned at the first
\* token of its production.
C7_FirstToken ==
    \A n \in Tree :
        /\ InRange(nodes[n].first)
        /\ nodes[n].line = tokens[nodes[n].first + 1].start_line
        /\ nodes[n].column = tokens[nodes[n].first + 1].start_column

\* C7: every node of the tree is positioned at a token: a BinOpExpr at its
\* operator, a CastExpr at its `as`, a FnCallExpr where its callee node is, a
\* Type made up for a missing return type at the token behind the `)` of the
\* parameter list, every other node (Root, RootExportDecl, Use, ExternBlock,
\* FnDef, FnDecl, FnProto, ParamDecl, Type, Block, PrefixOpExpr, ReturnExpr,
\* literals, Symbol, Unreachable, Directive) at the first token of its
\* production.
C7_Position ==
    \A n \in Tree :
        LET N == nodes[n]
            pos == PosOf(n)
        IN /\ InRange(pos)
           /\ CASE N.type = "NodeTypeBinOpExpr" ->
                     /\ BinOpOf(TokId(pos)) = N.data.bin_op
                     /\ N.first <= nodes[N.data.op1].first
                     /\ nodes[N.data.op1].first < pos
                     /\ pos < nodes[N.data.op2].first
                [] N.type = "NodeTypeCastExpr" ->
                     /\ TokId(pos) = "TokenIdKeywordAs"
                     /\ N.first < pos
                     /\ nodes[N.data.type].first = pos + 1
                [] N.type = "NodeTypeFnCallExpr" -> SamePos(n, N.data.fn_ref_expr)
                [] N.type \in {"NodeTypeFnDef", "NodeTypeFnDecl"} ->
                     /\ SamePos(n, N.data.fn_proto)
                     /\ pos = N.first
                [] N.type = "NodeTypeType" ->
                     IF TokId(N.first) \in {"TokenIdSymbol", "TokenIdKeywordUnreachable",
                                            "TokenIdStar"}
                     THEN pos = N.first
                     ELSE /\ N.data.primitive_name = VoidName
                          /\ pos > N.first
                          /\ TokId(pos - 1) = "TokenIdRParen"
                          /\ TokId(pos) # "TokenIdArrow"
                [] OTHER -> pos = N.first

\* a tree with a CastExpr, a BinOpExpr and a FnCallExpr of a parenthesized
\* callee, all three away from their first token
C7_Witness ==
    /\ \E n \in Tree : nodes[n].type = "NodeTypeCastExpr" /\ PosOf(n) # nodes[n].first
    /\ \E n \in Tree : nodes[n].type = "NodeTypeBinOpExpr" /\ PosOf(n) # nodes[n].first
    /\ \E n \in Tree : nodes[n].type = "NodeTypeFnCallExpr" /\ PosOf(n) # nodes[n].first

(***************************************************************************)
(* Return types.                                                           *)
(***************************************************************************)
RECURSIVE FindRParen(_)
FindRParen(i) == IF TokId(i) = "TokenIdRParen" \/ ~InRange(i) THEN i ELSE FindRParen(i + 1)

\* the index of the token behind the `)` of the parameter list of FnProto n
AfterParams(n) ==
    LET i == nodes[n].first
        name == IF TokId(i) \in {"TokenIdKeywordPub", "TokenIdKeywordExport"}
                THEN i + 2 ELSE i + 1
    IN FindRParen(name + 2) + 1

\* the Type node t is what the tokens from index i on spell
RECURSIVE TypeMatches(_, _)
TypeMatches(t, i) ==
    /\ t # nullptr
    /\ nodes[t].type = "NodeTypeType"
    /\ nodes[t].first = i
    /\ PosOf(t) = i
    /\ CASE TokId(i) = "TokenIdSymbol" ->
              /\ nodes[t].data.type = "AstNodeTypeTypePrimitive"
              /\ nodes[t].data.primitive_name =
                    SubSeq(buf, tokens[i + 1].start_pos + 1, tokens[i + 1].end_pos)
         [] TokId(i) = "TokenIdKeywordUnreachable" ->
              /\ nodes[t].data.type = "AstNodeTypeTypePrimitive"
              /\ nodes[t].data.primitive_name = UnreachableName
         [] TokId(i) = "TokenIdStar" ->
              /\ nodes[t].data.type = "AstNodeTypeTypePointer"
              /\ nodes[t].data.is_const = (TokId(i + 1) = "TokenIdKeywordConst")
              /\ TypeMatches(nodes[t].data.child_type, i + 2)
         [] OTHER -> FALSE

ReturnTypesSet ==
    \A n \in Tree :
        nodes[n].type = "NodeTypeFnProto" =>
            LET rt == nodes[n].data.return_type
                q == AfterParams(n)
            IN /\ rt # nullptr
               /\ InRange(q)
               /\ IF TokId(q) = "TokenIdArrow"
                  THEN TypeMatches(rt, q + 1)
                  ELSE /\ nodes[rt].type = "NodeTypeType"
                       /\ nodes[rt].data.type = "AstNodeTypeTypePrimitive"
                       /\ nodes[rt].data.primitive_name = <<"v", "o", "i", "d">>
                       /\ nodes[rt].data.child_type = nullptr
                       /\ nodes[rt].line = tokens[q + 1].start_line
                       /\ nodes[rt].column = tokens[q + 1].start_column

\* C8: every FnProto of a parsed tree has a return type: the parsed Type when
\* `->` follows the `)` of the parameter list, else a primitive Type "void"
\* positioned at the token that follows the `)`; the step that makes up the
\* void Type leaves every token index as it is.
C8_ReturnType ==
    [][/\ status' = "returned" => ReturnTypesSet'
       /\ (At("ast_parse_fn_proto", "params") /\ Cur # "TokenIdArrow") =>
             /\ token_index' = token_index
             /\ cursor_writes' = cursor_writes
             /\ \A k \in 1..Len(stack') : stack'[k].ti = stack[k].ti
             /\ nodes'[Top.node].data.return_type = Len(nodes')]_vars

\* a declaration `fn ... ( ... ) ;` whose return type was made up
C8_Witness ==
    /\ status = "returned"
    /\ \E n \in Tree :
          /\ nodes[n].type = "NodeTypeFnProto"
          /\ TokId(AfterParams(n)) = "TokenIdSemicolon"
          /\ nodes[nodes[n].data.return_type].data.primitive_name = VoidName
          /\ nodes[n].data.params # <<>>

(***************************************************************************)
(* The cursor.                                                             *)
(***************************************************************************)
\* C9: every index handed to tokens->at() is within 0 .. length - 1.
C9_ReadsInRange == reads \subseteq 0..(Len(tokens) - 1)

\* `export` and then EOF: the lookahead at index + 1 read the last token
C9_Witness ==
    /\ status = "exited"
    /\ Len(tokens) = 2
    /\ TokId(0) = "TokenIdKeywordExport"
    /\ reads = {0, 1}

\* C10 as it was stated: every assignment to a token index adds exactly one.
C10_ExactlyOne == \A w \in cursor_writes : w.d = 1

\* C10: no assignment to a token index lowers it or leaves it as it is; it
\* adds exactly one, but for the `+= 2` of ast_parse_root_export_decl and for
\* the store through new_token_index of the functions that take the index by
\* value, which adds the number of tokens the function stepped over.
C10_LeftToRight ==
    [][/\ token_index' >= token_index
       /\ \A k \in 1..Len(stack) :
             (k <= Len(stack') /\ stack'[k].fn = stack[k].fn) => stack'[k].ti >= stack[k].ti
       /\ \A w \in cursor_writes' :
             /\ w.d >= 1
             /\ w.d # 1 => \/ w.fn = "ast_parse_root_export_decl" /\ w.d = 2
                           \/ w.fn \in ByValue]_vars

\* a run with the `+= 2` and with a store of five through new_token_index
C10_Witness ==
    /\ [fn |-> "ast_parse_root_export_decl", d |-> 2] \in cursor_writes
    /\ [fn |-> "ast_parse_directive", d |-> 5] \in cursor_writes

(***************************************************************************)
(* Lists.                                                                  *)
(***************************************************************************)
\* the list of elements a node record holds
ElemList(N) ==
    CASE N.type = "NodeTypeRoot" -> N.data.top_level_decls
      [] N.type = "NodeTypeExternBlock" -> N.data.fn_decls
      [] N.type = "NodeTypeBlock" -> N.data.statements
      [] N.type = "NodeTypeFnProto" -> N.data.params
      [] N.type = "NodeTypeFnCallExpr" -> N.data.params
      [] OTHER -> <<>>

IsPrefix(l, m) == Len(l) <= Len(m) /\ SubSeq(m, 1, Len(l)) = l

\* the elements of every list of the tree start at increasing token indices
InSourceOrder ==
    \A n \in Tree :
        LET l == ElemList(nodes[n])
        IN \A j, k \in 1..Len(l) : j < k => nodes[l[j]].first < nodes[l[k]].first

\* C11: in a parsed tree the declarations of the Root, the FnDecls of an
\* ExternBlock, the statements of a Block, the parameters of a FnProto and
\* the arguments of a FnCallExpr are in increasing order of the token index
\* they start at; a step only ever appends to these lists.
C11_SourceOrder ==
    [][/\ status' = "returned" => InSourceOrder'
       /\ \A n \in 1..Len(nodes) :
             /\ IsPrefix(ElemList(nodes[n]), ElemList(nodes'[n]))
             /\ Len(ElemList(nodes'[n])) <= Len(ElemList(nodes[n])) + 1]_vars

\* two top-level declarations, the second with two elements of its own
C11_Witness ==
    /\ status = "returned"
    /\ Len(nodes[root].data.top_level_decls) = 2
    /\ \E n \in Tree : n # root /\ Len(ElemList(nodes[n])) = 2

(***************************************************************************)
(* Diagnostics.                                                            *)
(***************************************************************************)
\* the bytes of token i in the source buffer
Lexeme(i) == SubSeq(buf, tokens[i + 1].start_pos + 1, tokens[i + 1].end_pos)

\* dg is the invalid-token diagnostic for token i
InvalidTokenAt(dg, i) ==
    /\ dg.msg = <<"i", "n", "v", "a", "l", "i", "d", " ", "t", "o", "k", "e", "n", ":", " ", "'">>
                \o Lexeme(i) \o <<"'">>
    /\ dg.line_start = tokens[i + 1].start_line
    /\ dg.column_start = tokens[i + 1].start_column
    /\ dg.line_end = -1
    /\ dg.column_end = -1

\* C12: a run that ends on an unexpected token leaves the diagnostic
\* `invalid token: '<lexeme>'` with the lexeme, start line and start column of
\* the offending token, the last token the parser looked at, and with end
\* line and column -1; for `a op ;` with any binary operator, and for
\* `1 + ;`, the offending token is the `;` behind the operator.
C12_InvalidToken ==
    status = "exited" =>
        /\ Len(diags) = 1
        /\ diags[1].msg # Chars("invalid directive") =>
              \E i \in reads :
                 /\ \A r \in reads : r <= i
                 /\ InRange(i)
                 /\ InvalidTokenAt(diags[1], i)
        /\ \A k \in 1..Len(BinOps) :
              (Len(tokens) = 10 /\ IsStmt(<<Sa, BinOps[k]>>)) =>
                 /\ TokId(7) = "TokenIdSemicolon"
                 /\ InvalidTokenAt(diags[1], 7)
        /\ IsStmt(<<Num("1"), Plus>>) => InvalidTokenAt(diags[1], 7)

\* `fn f ( ) { 1 + ; }` has been refused at the `;`
C12_Witness ==
    /\ status = "exited"
    /\ IsStmt(<<Num("1"), Plus>>)
    /\ diags[1].msg = Chars("invalid token") \o <<";", "'">>
    /\ diags[1].token = 7

(***************************************************************************)
(* String literals.                                                        *)
(***************************************************************************)
\* the bytes of the string token i between its first and its last byte
Content(i) == SubSeq(buf, tokens[i + 1].start_pos + 2, tokens[i + 1].end_pos - 1)

\* the nodes that hold a decoded string, the token it comes from, the string
StringHolders ==
    {"NodeTypeUse", "NodeTypeRootExportDecl", "NodeTypeDirective", "NodeTypeStringLiteral"}
StringToken(n) ==
    CASE nodes[n].type = "NodeTypeUse" -> nodes[n].first + 1
      [] nodes[n].type = "NodeTypeRootExportDecl" -> nodes[n].first + 2
      [] nodes[n].type = "NodeTypeDirective" -> nodes[n].first + 3
      [] nodes[n].type = "NodeTypeStringLiteral" -> nodes[n].first
Decoded(n) ==
    CASE nodes[n].type = "NodeTypeUse" -> nodes[n].data.path
      [] nodes[n].type = "NodeTypeRootExportDecl" -> nodes[n].data.name
      [] nodes[n].type = "NodeTypeDirective" -> nodes[n].data.param
      [] nodes[n].type = "NodeTypeStringLiteral" -> nodes[n].data.string

\* the byte an escape stands for; none for a byte that is not in the table
Escape(b) ==
    CASE b = "\\" -> <<"\\">>
      [] b = "r" -> <<"\r">>
      [] b = "n" -> <<"\n">>
      [] b = "t" -> <<"\t">>
      [] b = "\"" -> <<"\"">>
      [] OTHER -> <<>>

\* the content c read left to right, pairs of backslash and byte replaced
RECURSIVE Expand(_)
Expand(c) ==
    IF c = <<>> THEN <<>>
    ELSE IF c[1] = "\\" /\ Len(c) >= 2 THEN Escape(c[2]) \o Expand(SubSeq(c, 3, Len(c)))
    ELSE <<c[1]>> \o Expand(Tail(c))

\* c has a backslash in front of a byte that is not in the table
RECURSIVE HasUnknown(_)
HasUnknown(c) ==
    IF Len(c) < 2 THEN FALSE
    ELSE IF c[1] = "\\" THEN Escape(c[2]) = <<>> \/ HasUnknown(SubSeq(c, 3, Len(c)))
    ELSE HasUnknown(Tail(c))

\* C13: the decoder leaves out the first and the last byte of the token and
\* reads the rest left to right; a backslash and one of \, r, n, t, " give
\* the one byte backslash, CR, LF, TAB, double quote; every other byte is
\* copied; a literal without a backslash decodes to its content.
C13_Decoder ==
    status = "returned" =>
        \A n \in Tree :
            (nodes[n].type \in StringHolders /\ ~HasUnknown(Content(StringToken(n)))) =>
                LET c == Content(StringToken(n))
                IN /\ Decoded(n) = Expand(c)
                   /\ (\A k \in 1..Len(c) : c[k] # "\\") => Decoded(n) = c

\* `use "a\n";` has been parsed: the path is the byte a and a line feed
C13_Witness ==
    /\ status = "returned"
    /\ \E n \in Tree :
          /\ nodes[n].type = "NodeTypeUse"
          /\ Content(StringToken(n)) = <<"a", "\\", "n">>
          /\ nodes[n].data.path = <<"a", "\n">>

\* the run is over `use <string> ;` whose string has the content c
IsUse(c) ==
    /\ Len(tokens) = 4
    /\ TokId(0) = "TokenIdKeywordUse"
    /\ TokId(1) = "TokenIdStringLiteral"
    /\ Content(1) = c
    /\ status # "running"

UsePath == nodes[nodes[root].data.top_level_decls[1]].data.path

\* C14 as it was stated: the literal "\\\\\n\r\t\"" decodes to the five bytes
\* backslash, LF, CR, TAB, double quote.
C14_FiveBytes ==
    IsUse(RoundTrip) => (status = "returned" /\ UsePath = <<"\\", "\n", "\r", "\t", "\"">>)

\* C14: the literal "\\\\\n\r\t\"" decodes to six bytes, two backslashes and
\* then LF, CR, TAB, double quote; the five bytes backslash, LF, CR, TAB,
\* double quote are what "\\\n\r\t\"" decodes to.
C14_RoundTrip ==
    /\ IsUse(RoundTrip) =>
          (status = "returned" /\ UsePath = <<"\\", "\\", "\n", "\r", "\t", "\"">>)
    /\ IsUse(SubSeq(RoundTrip, 3, 12)) =>
          (status = "returned" /\ UsePath = <<"\\", "\n", "\r", "\t", "\"">>)

C14_Witness == IsUse(RoundTrip) /\ status = "returned" /\ Len(UsePath) = 6

\* C20: a backslash in front of a byte other than \, r, n, t, " gives no
\* byte, neither the backslash nor the byte behind it, and no diagnostic; the
\* bytes after it are decoded as they are anywhere else.
C20_UnknownEscape ==
    /\ status = "returned" =>
          \A n \in Tree :
              (nodes[n].type \in StringHolders /\ HasUnknown(Content(StringToken(n)))) =>
                  Decoded(n) = Expand(Content(StringToken(n)))
    /\ (/\ TokId(1) = "TokenIdStringLiteral"
        /\ IsUse(Content(1))
        /\ TokId(2) = "TokenIdSemicolon"
        /\ HasUnknown(Content(1))) =>
           /\ status = "returned"
           /\ diags = <<>>
           /\ UsePath = Expand(Content(1))
    /\ IsUse(<<"\\", "x">>) => UsePath = <<>>
    /\ IsUse(<<"a", "\\", "x">>) => UsePath = <<"a">>
    /\ IsUse(<<"\\", "x", "\\", "n">>) => UsePath = <<"\n">>

\* `use "\xn";` has been parsed: the path is the byte n
C20_Witness ==
    /\ IsUse(<<"\\", "x", "n">>)
    /\ status = "returned"
    /\ UsePath = <<"n">>

(***************************************************************************)
(* Declarations.                                                           *)
(***************************************************************************)
\* the top-level declarations are what their first two tokens announce
ExportsTold ==
    \A k \in 1..Len(nodes[root].data.top_level_decls) :
        LET d == nodes[root].data.top_level_decls[k]
            i == nodes[d].first
        IN /\ (TokId(i) = "TokenIdKeywordExport" /\ TokId(i + 1) = "TokenIdSymbol") =>
                 /\ nodes[d].type = "NodeTypeRootExportDecl"
                 /\ TokId(i + 2) = "TokenIdStringLiteral"
                 /\ TokId(i + 3) = "TokenIdSemicolon"
                 /\ nodes[d].data.type = Lexeme(i + 1)
                 /\ nodes[d].data.name = Expand(Content(i + 2))
           /\ (TokId(i) = "TokenIdKeywordExport" /\ TokId(i + 1) = "TokenIdKeywordFn") =>
                 /\ nodes[d].type = "NodeTypeFnDef"
                 /\ nodes[nodes[d].data.fn_proto].data.visib_mod = "FnProtoVisibModExport"
           /\ nodes[d].type = "NodeTypeRootExportDecl" =>
                 (TokId(i) = "TokenIdKeywordExport" /\ TokId(i + 1) = "TokenIdSymbol")

\* C15: at top level `export` Symbol is a RootExportDecl (export Symbol
\* StringLiteral `;`, type the lexeme of the symbol, name the decoded
\* string), `export fn` a FnDef whose FnProto has export visibility;
\* RootExportDecl is the first alternative tried, ahead of FnDef, ExternBlock
\* and Use; when it does not recognise its two tokens it moves no token index.
C15_RootExportDecl ==
    [][/\ status' = "returned" => ExportsTold'
       /\ (/\ Len(tokens) = 5
           /\ TokId(0) = "TokenIdKeywordExport" /\ TokId(1) = "TokenIdSymbol"
           /\ TokId(2) = "TokenIdStringLiteral" /\ TokId(3) = "TokenIdSemicolon"
           /\ status' # "running") =>
              /\ status' = "returned"
              /\ Len(nodes'[root'].data.top_level_decls) = 1
       /\ At("ast_parse_top_level_decls", "directives") =>
              /\ Len(stack') = Len(stack) + 1
              /\ stack'[Len(stack')].fn = "ast_parse_root_export_decl"
       /\ (/\ Top.fn = "ast_parse_top_level_decls"
           /\ Len(stack') = Len(stack) + 1
           /\ stack'[Len(stack')].fn \in
                 {"ast_parse_fn_def", "ast_parse_extern_block", "ast_parse_use"}) =>
              /\ Top.pc # "directives"
              /\ ret = nullptr
       /\ (/\ At("ast_parse_root_export_decl", "entry")
           /\ ~(Cur = "TokenIdKeywordExport" /\ TokId(Deref(Top.tip) + 1) = "TokenIdSymbol")) =>
              /\ status' = "running"
              /\ ret' = nullptr
              /\ token_index' = token_index
              /\ cursor_writes' = cursor_writes
              /\ nodes' = nodes]_vars

\* `export e "h" ;` behind a directive has been parsed
C15_Witness ==
    /\ status = "returned"
    /\ \E n \in Tree :
          /\ nodes[n].type = "NodeTypeRootExportDecl"
          /\ nodes[n].data.type = <<"e">>
          /\ nodes[n].data.name = <<"h">>
          /\ DirectivesOf(nodes[n].data.directives) # <<>>

\* the visibility of every FnProto of the tree is what its first token says
VisibilityTold ==
    \A n \in Tree :
        nodes[n].type = "NodeTypeFnProto" =>
            LET i == nodes[n].first
            IN /\ TokId(i) \in {"TokenIdKeywordFn", "TokenIdKeywordPub", "TokenIdKeywordExport"}
               /\ TokId(i) = "TokenIdKeywordFn" =>
                     nodes[n].data.visib_mod = "FnProtoVisibModPrivate"
               /\ TokId(i) = "TokenIdKeywordPub" =>
                     (nodes[n].data.visib_mod = "FnProtoVisibModPub"
                      /\ TokId(i + 1) = "TokenIdKeywordFn")
               /\ TokId(i) = "TokenIdKeywordExport" =>
                     (nodes[n].data.visib_mod = "FnProtoVisibModExport"
                      /\ TokId(i + 1) = "TokenIdKeywordFn")

\* C16: a FnProto that starts with `fn` is private, with `pub fn` pub, with
\* `export fn` export; `pub` or `export` at the start of a FnProto and no `fn`
\* behind it ends the run with an invalid-token diagnostic for the token
\* behind the prefix, whether the FnProto was mandatory or not.
C16_Visibility ==
    [][/\ status' = "returned" => VisibilityTold'
       /\ (/\ At("ast_parse_fn_proto", "entry")
           /\ Cur \in {"TokenIdKeywordPub", "TokenIdKeywordExport"}
           /\ TokId(Deref(Top.tip) + 1) # "TokenIdKeywordFn") =>
              /\ status' = "exited"
              /\ Len(diags') = 1
              /\ InvalidTokenAt(diags'[1], Deref(Top.tip) + 1)]_vars

\* `pub fn` and `export fn` have been parsed as such
C16_Witness ==
    /\ status = "returned"
    /\ \E n \in Tree :
          /\ nodes[n].type = "NodeTypeFnProto"
          /\ nodes[n].data.visib_mod = "FnProtoVisibModPub"
          /\ TokId(nodes[n].first) = "TokenIdKeywordPub"

\* a FnProto that was not mandatory has ended the run behind its `pub`
C16_Fatal ==
    /\ status = "exited"
    /\ Top.fn = "ast_parse_fn_proto"
    /\ ~Top.mandatory
    /\ TokId(Top.first) = "TokenIdKeywordPub"
    /\ diags[1].token = Top.first + 1

\* C18: every BinOpExpr node is positioned at the token of its operator, which
\* is not the first token of its left operand: the left operand starts before
\* that token and the right operand starts behind it.
C18_OperatorPosition ==
    \A n \in DOMAIN nodes :
        nodes[n].type = "NodeTypeBinOpExpr" =>
            LET pos == PosOf(n)
                left == nodes[nodes[n].data.op1].first
                right == nodes[nodes[n].data.op2].first
            IN /\ InRange(pos)
               /\ BinOpOf(TokId(pos)) = nodes[n].data.bin_op
               /\ nodes[n].data.bin_op # "BinOpTypeInvalid"
               /\ pos # left
               /\ left < pos
               /\ pos < right

\* a BinOpExpr of the tree whose left operand is more than one token long
C18_Witness ==
    /\ status = "returned"
    /\ \E n \in Tree :
          /\ nodes[n].type = "NodeTypeBinOpExpr"
          /\ nodes[nodes[n].data.op1].first + 1 < PosOf(n)
          /\ nodes[nodes[n].data.op2].first = PosOf(n) + 1

\* the directive collector is about to start
CollectorStarts ==
    \/ At("ast_parse_top_level_decls", "entry")
    \/ At("ast_parse_extern_block", "loop")

\* C19: whenever the directive collector starts, at the head of the top-level
\* loop and of the extern-block loop, the pending directive slot is empty, so
\* the step fills the slot and the assertion in front of it does not fail; the
\* slot is empty when the parse has returned.
C19_PendingSlot ==
    [][/\ CollectorStarts =>
             /\ directive_list = nullptr
             /\ status' = "running"
             /\ directive_list' # nullptr
             /\ lists'[directive_list'] = <<>>
       /\ status' = "returned" => directive_list' = nullptr]_vars

\* the collector starts again behind a declaration that took the slot: the
\* second FnDecl of an extern block
C19_Witness ==
    /\ At("ast_parse_extern_block", "loop")
    /\ Len(nodes[Top.node].data.fn_decls) >= 1
    /\ nodes[nodes[nodes[Top.node].data.fn_decls[1]].data.fn_proto].data.directives # nullptr
    /\ directive_list = nullptr

(***************************************************************************)
(* Termination.                                                            *)
(***************************************************************************)
\* the token index frame d of stack s is at
CursorOf(s, ti, d) ==
    IF s[d].fn \in ByValue THEN s[d].ti
    ELSE IF s[d].tip = 0 THEN ti ELSE s[s[d].tip].ti

Last(l) == l[Len(l)]

\* a function that is running inside itself started at a later token
DescentConsumes ==
    \A d1, d2 \in 1..Len(stack) :
        (d1 < d2 /\ stack[d1].fn = stack[d2].fn) => stack[d1].first < stack[d2].first

\* a step that appends to a list has the element start at or behind the
\* last one's start, and leaves the cursor behind the element's start
IterationConsumes ==
    /\ \A n \in 1..Len(nodes) :
          LET l == ElemList(nodes[n])
              m == ElemList(nodes'[n])
          IN Len(m) > Len(l) =>
                /\ Len(l) > 0 => nodes'[Last(l)].first < nodes'[Last(m)].first
                /\ Len(stack') > 0 =>
                      nodes'[Last(m)].first < CursorOf(stack', token_index', Len(stack'))
    /\ \A k \in 1..Len(lists) :
          Len(lists'[k]) > Len(lists[k]) =>
             /\ Len(lists[k]) > 0 => nodes'[Last(lists[k])].first < nodes'[Last(lists'[k])].first
             /\ Len(stack') > 0 =>
                   nodes'[Last(lists'[k])].first < CursorOf(stack', token_index', Len(stack'))

\* the run is over: a root was returned or one diagnostic was given
Terminated ==
    \/ status = "returned" /\ root # nullptr /\ diags = <<>>
    \/ status = "exited" /\ Len(diags) = 1

\* C17: every parse terminates, with a root returned or with a diagnostic;
\* every pass through a loop (directives, top-level declarations, FnDecls of
\* an extern block, statements, parameters, arguments) and every descent of a
\* function into itself (expression, block, pointer type) has consumed a
\* token.
C17_Termination ==
    /\ <>Terminated
    /\ [](status # "running" => Terminated)
    /\ []DescentConsumes
    /\ [][IterationConsumes]_vars

\* a parse that descended into a pointer type, went round the statement
\* loop and returned
C17_Witness ==
    /\ status = "returned"
    /\ \E n, m \in Tree :
          /\ nodes[n].type = "NodeTypeType"
          /\ nodes[n].data.child_type # nullptr
          /\ nodes[m].type = "NodeTypeBlock"
          /\ Len(nodes[m].data.statements) >= 1

\* an expression is being parsed inside an expression
C17_Descent ==
    \E d1, d2 \in 1..Len(stack) :
        /\ d1 < d2
        /\ stack[d1].fn = "ast_parse_expression"
        /\ stack[d2].fn = "ast_parse_expression"

(***************************************************************************)
(* Return expressions.                                                     *)
(***************************************************************************)
\* the tokens an expression can start with
ExpressionStart ==
    {"TokenIdKeywordReturn", "TokenIdNumberLiteral", "TokenIdStringLiteral",
     "TokenIdKeywordUnreachable", "TokenIdSymbol", "TokenIdLBrace", "TokenIdLParen",
     "TokenIdBang", "TokenIdDash", "TokenIdTilde"}

\* the ReturnExpr nodes of the tree have the payload the token behind
\* `return` asks for
PayloadTold ==
    \A n \in Tree :
        nodes[n].type = "NodeTypeReturnExpr" =>
            LET i == nodes[n].first
                e == nodes[n].data.expr
            IN /\ TokId(i) = "TokenIdKeywordReturn"
               /\ IF TokId(i + 1) \in ExpressionStart
                  THEN e # nullptr /\ e \in Tree /\ nodes[e].first > i
                  ELSE e = nullptr

\* C21: behind `return`, a token that cannot start an expression leaves the
\* ReturnExpr without payload, with the cursor behind `return` and without a
\* diagnostic from that step; a token that can start one makes the parsed
\* expression the payload, a ReturnExpr behind `return return` included.
C21_ReturnPayload ==
    [][/\ status' = "returned" => PayloadTold'
       /\ At("ast_parse_return_expr", "expr") =>
             LET i == Top.first
                 at == Deref(Top.tip)
             IN /\ TokId(i) = "TokenIdKeywordReturn"
                /\ status' = "running"
                /\ diags' = diags
                /\ token_index' = token_index
                /\ ret' = Top.node
                /\ nodes'[Top.node].type = "NodeTypeReturnExpr"
                /\ nodes'[Top.node].data.expr = ret
                /\ IF TokId(i + 1) \in ExpressionStart
                   THEN ret # nullptr /\ at > i + 1
                   ELSE ret = nullptr /\ at = i + 1
                /\ (TokId(i + 1) = "TokenIdKeywordReturn") =>
                       nodes[ret].type = "NodeTypeReturnExpr"]_vars

\* `return return a` and `return ;` have been parsed
C21_Witness ==
    /\ status = "returned"
    /\ \E n \in Tree :
          /\ nodes[n].type = "NodeTypeReturnExpr"
          /\ nodes[n].data.expr # nullptr
          /\ nodes[nodes[n].data.expr].type = "NodeTypeReturnExpr"
          /\ nodes[nodes[nodes[n].data.expr].data.expr].type = "NodeTypeSymbol"

\* a ReturnExpr without payload in a parsed tree
C21_Absent ==
    /\ status = "returned"
    /\ \E n \in Tree :
          /\ nodes[n].type = "NodeTypeReturnExpr"
          /\ nodes[n].data.expr = nullptr
          /\ TokId(nodes[n].first + 1) = "TokenIdSemicolon"

(***************************************************************************)
(* Prefix operator, cast and call.                                         *)
(***************************************************************************)
\* the index of the first token of the expression of `fn f() { expr; }`
StmtStart == Len(FnDefOf(<<>>)) - 1

\* the run over `fn f() { expr; }` has ended with an invalid-token diagnostic
\* for the token k of the expression
RejectedAt(expr, k) ==
    (status # "running" /\ IsStmt(expr)) =>
        /\ status = "exited"
        /\ Len(diags) = 1
        /\ InvalidTokenAt(diags[1], StmtStart + k - 1)
        /\ TokId(StmtStart + k - 1) = expr[k].id

\* the operand of a prefix operator, of a cast and of a call is the result
\* of no prefix operator, cast or call of its own unless it is in parentheses
AppliedOnce ==
    \A n \in Tree :
        LET N == nodes[n]
            t(k) == nodes[k].type
        IN /\ N.type = "NodeTypePrefixOpExpr" =>
                (t(N.data.primary_expr) \in {"NodeTypePrefixOpExpr", "NodeTypeCastExpr"}
                    => TokId(N.first + 1) = "TokenIdLParen")
           /\ N.type = "NodeTypeCastExpr" =>
                (t(N.data.prefix_op_expr) = "NodeTypeCastExpr"
                    => TokId(N.first) = "TokenIdLParen")
           /\ N.type = "NodeTypeFnCallExpr" =>
                (t(N.data.fn_ref_expr) \in {"NodeTypeFnCallExpr", "NodeTypeCastExpr",
                                            "NodeTypePrefixOpExpr"}
                    => TokId(N.first) = "TokenIdLParen")

\* C22: `!!a;`, `x as T as U;` and `f()();` end with an invalid-token
\* diagnostic at the second prefix operator, the second `as` and the second
\* `(`; `(x as T) as U;` and `(f())();` are parsed, the cast of a cast and
\* the call of a call; in every tree a prefix operator, a cast or a call is
\* applied to the result of another one only through parentheses.
C22_AtMostOnce ==
    /\ RejectedAt(<<Bang, Bang, Sa>>, 2)
    /\ RejectedAt(<<Sx, KwAs, TT, KwAs, UU>>, 4)
    /\ RejectedAt(<<Sf, LParen, RParen, LParen, RParen>>, 4)
    /\ (status # "running" /\ IsStmt(<<LParen, Sx, KwAs, TT, RParen, KwAs, UU>>)) =>
          /\ status = "returned"
          /\ Shape(Statement1) =
                <<"NodeTypeCastExpr", <<>>,
                  << <<"NodeTypeCastExpr", <<>>, <<SymShape("x"), TypeShape("T")>>>>,
                     TypeShape("U") >> >>
    /\ (status # "running" /\ IsStmt(<<LParen, Sf, LParen, RParen, RParen, LParen, RParen>>)) =>
          /\ status = "returned"
          /\ nodes[Statement1].type = "NodeTypeFnCallExpr"
          /\ nodes[Statement1].data.params = <<>>
          /\ nodes[nodes[Statement1].data.fn_ref_expr].type = "NodeTypeFnCallExpr"
          /\ nodes[nodes[Statement1].data.fn_ref_expr].data.params = <<>>
          /\ nodes[nodes[nodes[Statement1].data.fn_ref_expr].data.fn_ref_expr].type = "NodeTypeSymbol"
    /\ status = "returned" => AppliedOnce

\* `!!a;` has been rejected at its second `!`
C22_Witness ==
    /\ IsStmt(<<Bang, Bang, Sa>>)
    /\ status = "exited"
    /\ diags[1].token = StmtStart + 1
    /\ reads = 0..(StmtStart + 1)

\* `(f())();` has been parsed
C22_Accepted ==
    /\ IsStmt(<<LParen, Sf, LParen, RParen, RParen, LParen, RParen>>)
    /\ status = "returned"

(***************************************************************************)
(* Extern blocks.                                                          *)
(***************************************************************************)
FnStart == {"TokenIdKeywordFn", "TokenIdKeywordPub", "TokenIdKeywordExport"}

\* the run ends in this step with an invalid-token diagnostic for token i
FatalAt(i) ==
    /\ status' = "exited"
    /\ Len(diags') = 1
    /\ InvalidTokenAt(diags'[1], i)

\* the extern blocks of the tree hold FnDecls only, the FnDecls are in extern
\* blocks only, and the directives are held by the declaration behind them
ExternTold ==
    /\ \A k \in 1..Len(nodes[root].data.top_level_decls) :
          nodes[nodes[root].data.top_level_decls[k]].type # "NodeTypeFnDecl"
    /\ \A n \in Tree :
          LET N == nodes[n]
          IN /\ N.type = "NodeTypeFnDef" =>
                   /\ nodes[N.data.fn_proto].type = "NodeTypeFnProto"
                   /\ nodes[N.data.body].type = "NodeTypeBlock"
                   /\ TokId(nodes[N.data.body].first) = "TokenIdLBrace"
             /\ N.type = "NodeTypeExternBlock" =>
                   /\ TokId(N.first) = "TokenIdKeywordExtern"
                   /\ TokId(N.first + 1) = "TokenIdLBrace"
                   /\ \A j \in 1..Len(DirectivesOf(N.data.directives)) :
                         /\ nodes[lists[N.data.directives][j]].first < N.first
                         /\ RunEnd(nodes[lists[N.data.directives][j]].first) = N.first
                   /\ \A k \in 1..Len(N.data.fn_decls) :
                         LET D == nodes[N.data.fn_decls[k]]
                             P == nodes[D.data.fn_proto]
                         IN /\ D.type = "NodeTypeFnDecl"
                            /\ P.type = "NodeTypeFnProto"
                            /\ N.first + 1 < P.first
                            /\ TokId(P.first) \in FnStart
                            /\ \A j \in 1..Len(DirectivesOf(P.data.directives)) :
                                  LET i == nodes[lists[P.data.directives][j]].first
                                  IN /\ N.first + 1 < i
                                     /\ RunEnd(i) = P.first
                   /\ TokId(RunEnd(N.first + 2)) \in FnStart \cup {"TokenIdRBrace"}

\* C23: inside `extern {` every item up to `}` is a run of directives, a
\* FnProto and `;`: a token that starts no FnProto and a token other than `;`
\* behind the FnProto (a `{` for one) end the run with an invalid-token
\* diagnostic for that token; behind a top-level FnProto a token other than
\* `{` (a `;` for one) does the same.  Directives in front of `extern` are
\* held by the ExternBlock, directives inside by the FnProto behind them.
C23_ExternBlock ==
    [][/\ status' = "returned" => ExternTold'
       /\ (At("ast_parse_extern_block", "directives") /\ Cur # "TokenIdRBrace") =>
             /\ status' = "running"
             /\ stack'[Len(stack')].fn = "ast_parse_fn_decl"
       /\ At("ast_parse_fn_decl", "entry") =>
             /\ stack'[Len(stack')].fn = "ast_parse_fn_proto"
             /\ stack'[Len(stack')].mandatory
             /\ stack'[Len(stack')].first = Top.ti
       /\ (At("ast_parse_fn_proto", "entry") /\ Top.mandatory /\ Cur \notin FnStart) =>
             FatalAt(Deref(Top.tip))
       /\ At("ast_parse_fn_decl", "fn_proto") =>
             IF TokId(Top.ti) = "TokenIdSemicolon"
             THEN /\ status' = "running"
                  /\ nodes'[ret'].type = "NodeTypeFnDecl"
                  /\ nodes'[ret'].data.fn_proto = ret
             ELSE FatalAt(Top.ti)
       /\ (At("ast_parse_fn_def", "fn_proto") /\ ret # nullptr) =>
             /\ stack'[Len(stack')].fn = "ast_parse_block"
             /\ stack'[Len(stack')].mandatory
             /\ token_index' = token_index
       /\ (At("ast_parse_block", "entry") /\ Top.mandatory /\ Cur # "TokenIdLBrace") =>
             FatalAt(Deref(Top.tip))]_vars

\* an extern block with directives in front of it and in front of its FnDecl
C23_Witness ==
    /\ status = "returned"
    /\ \E n \in Tree :
          /\ nodes[n].type = "NodeTypeExternBlock"
          /\ DirectivesOf(nodes[n].data.directives) # <<>>
          /\ Len(nodes[n].data.fn_decls) >= 1
          /\ DirectivesOf(nodes[nodes[nodes[n].data.fn_decls[1]].data.fn_proto].data.directives)
                # <<>>

\* a body behind a prototype in an extern block has ended the run
C23_BodyRejected ==
    /\ status = "exited"
    /\ Top.fn = "ast_parse_fn_decl"
    /\ TokId(diags[1].token) = "TokenIdLBrace"

\* `;` behind a top-level prototype has ended the run
C23_SemicolonRejected ==
    /\ status = "exited"
    /\ Top.fn = "ast_parse_block"
    /\ stack[Len(stack) - 1].fn = "ast_parse_fn_def"
    /\ TokId(diags[1].token) = "TokenIdSemicolon"

(***************************************************************************)
(* Types.                                                                  *)
(***************************************************************************)
\* the number of pointer levels of the Type node n of the heap ns
RECURSIVE PtrDepth(_, _)
PtrDepth(ns, n) ==
    IF ns[n].data.type = "AstNodeTypeTypePointer" /\ ns[n].data.child_type # nullptr
    THEN 1 + PtrDepth(ns, ns[n].data.child_type)
    ELSE 0

\* C24: a Symbol gives a primitive Type with the symbol's lexeme for name,
\* `unreachable` one named "unreachable"; `*` and then `const` or `mut` give
\* a pointer Type, const for `const`, whose child is the Type parsed behind
\* them; a token other than `const` and `mut` behind `*`, and a first token
\* other than Symbol, `unreachable` and `*`, end the run with an
\* invalid-token diagnostic for that token; a Type with d pointer levels
\* takes 2d+1 tokens.
C24_TypeParsing ==
    [][/\ At("ast_parse_type", "entry") =>
             LET i == Top.ti
                 after == IF Top.tip = 0 THEN token_index' ELSE stack'[Top.tip].ti
             IN CASE TokId(i) = "TokenIdSymbol" ->
                       /\ status' = "running"
                       /\ Len(stack') = Len(stack) - 1
                       /\ nodes'[ret'].type = "NodeTypeType"
                       /\ nodes'[ret'].data.type = "AstNodeTypeTypePrimitive"
                       /\ nodes'[ret'].data.primitive_name = Lexeme(i)
                       /\ after = i + 1
                  [] TokId(i) = "TokenIdKeywordUnreachable" ->
                       /\ status' = "running"
                       /\ Len(stack') = Len(stack) - 1
                       /\ nodes'[ret'].type = "NodeTypeType"
                       /\ nodes'[ret'].data.type = "AstNodeTypeTypePrimitive"
                       /\ nodes'[ret'].data.primitive_name =
                             <<"u", "n", "r", "e", "a", "c", "h", "a", "b", "l", "e">>
                       /\ after = i + 1
                  [] TokId(i) = "TokenIdStar" ->
                       IF TokId(i + 1) \in {"TokenIdKeywordConst", "TokenIdKeywordMut"}
                       THEN /\ status' = "running"
                            /\ Len(stack') = Len(stack) + 1
                            /\ stack'[Len(stack')].fn = "ast_parse_type"
                            /\ stack'[Len(stack')].ti = i + 2
                            /\ LET id == stack'[Len(stack)].node
                               IN /\ nodes'[id].type = "NodeTypeType"
                                  /\ nodes'[id].data.type = "AstNodeTypeTypePointer"
                                  /\ nodes'[id].data.is_const =
                                        (TokId(i + 1) = "TokenIdKeywordConst")
                       ELSE FatalAt(i + 1)
                  [] OTHER -> FatalAt(i)
       /\ At("ast_parse_type", "child_type") =>
             /\ status' = "running"
             /\ Len(stack') = Len(stack) - 1
             /\ ret' = Top.node
             /\ nodes'[ret'].data.child_type = ret
             /\ nodes'[ret].type = "NodeTypeType"
       /\ (At("ast_parse_type", Top.pc) /\ Len(stack') = Len(stack) - 1) =>
             LET after == IF Top.tip = 0 THEN token_index' ELSE stack'[Top.tip].ti
             IN after = Top.first + 2 * PtrDepth(nodes', ret') + 1]_vars

\* a pointer Type of two levels, `* mut * const T`, has been parsed
C24_Witness ==
    /\ status = "returned"
    /\ \E n \in Tree :
          /\ nodes[n].type = "NodeTypeType"
          /\ PtrDepth(nodes, n) = 2
          /\ ~nodes[n].data.is_const
          /\ nodes[nodes[n].data.child_type].data.is_const
          /\ TokId(nodes[n].first + 4) = "TokenIdSymbol"

\* a `*` without `const` or `mut` behind it has ended the run
C24_Fatal ==
    /\ status = "exited"
    /\ Top.fn = "ast_parse_type"
    /\ TokId(Top.first) = "TokenIdStar"
    /\ diags[1].token = Top.first + 1

(***************************************************************************)
(* Parameter and argument lists.                                           *)
(***************************************************************************)
ListFns == {"ast_parse_param_decl_list", "ast_parse_fn_call_param_list"}

\* the index behind the last token of the parsed Type node n
TypeEnd(n) == nodes[n].first + 2 * PtrDepth(nodes, n) + 1

\* the parameters of every FnProto of the tree are `Symbol : Type`, the first
\* behind `(`, each next one behind one `,`, the last in front of `)`
ParamsTold ==
    \A n \in Tree :
        nodes[n].type = "NodeTypeFnProto" =>
            LET ps == nodes[n].data.params
            IN \A k \in 1..Len(ps) :
                  LET P == nodes[ps[k]]
                      end == TypeEnd(P.data.type)
                  IN /\ P.type = "NodeTypeParamDecl"
                     /\ TokId(P.first) = "TokenIdSymbol"
                     /\ P.data.name = Lexeme(P.first)
                     /\ TokId(P.first + 1) = "TokenIdColon"
                     /\ nodes[P.data.type].first = P.first + 2
                     /\ TokId(P.first - 1) = IF k = 1 THEN "TokenIdLParen" ELSE "TokenIdComma"
                     /\ IF k = Len(ps) THEN TokId(end) = "TokenIdRParen"
                        ELSE TokId(end) = "TokenIdComma" /\ nodes[ps[k + 1]].first = end + 1

\* the run over `fn f(ps) {}` has ended with an invalid-token diagnostic for
\* the token k of ps (the `)` for k = Len(ps) + 1)
ParamsRejectedAt(ps, k) ==
    (status # "running"
     /\ tokens = Lex(<<KwFn, Sf, LParen>> \o ps \o <<RParen, LBrace, RBrace, Eof>>)) =>
        /\ status = "exited"
        /\ Len(diags) = 1
        /\ InvalidTokenAt(diags[1], k + 2)

\* C25: `(` `)` is the empty list; otherwise an element is parsed (a
\* ParamDecl, Symbol `:` Type, or a mandatory Expression), appended, and
\* behind it `)` ends the list, `,` asks for one more element and any other
\* token ends the run with an invalid-token diagnostic for it; a `)` or a
\* second `,` behind a `,`, and an element behind an element, end the run
\* with the diagnostic for that token.
C25_Lists ==
    [][/\ status' = "returned" => ParamsTold'
       /\ (Len(stack) > 0 /\ At(Top.fn, "entry") /\ Top.fn \in ListFns
           /\ TokId(Top.ti) = "TokenIdLParen") =>
             LET after == IF Top.tip = 0 THEN token_index' ELSE stack'[Top.tip].ti
             IN /\ status' = "running"
                /\ nodes' = nodes
                /\ IF TokId(Top.ti + 1) = "TokenIdRParen"
                   THEN /\ Len(stack') = Len(stack) - 1
                        /\ after = Top.ti + 2
                        /\ nodes[Top.node].data.params = <<>>
                   ELSE /\ Len(stack') = Len(stack) + 1
                        /\ stack'[Len(stack')].first = Top.ti + 1
                        /\ stack'[Len(stack')].fn =
                              IF Top.fn = "ast_parse_param_decl_list"
                              THEN "ast_parse_param_decl" ELSE "ast_parse_expression"
                        /\ stack'[Len(stack')].fn = "ast_parse_expression" =>
                              stack'[Len(stack')].mandatory
       /\ (Len(stack) > 0 /\ At(Top.fn, Top.pc) /\ Top.fn \in ListFns /\ Top.pc # "entry") =>
             LET after == IF Top.tip = 0 THEN token_index' ELSE stack'[Top.tip].ti
             IN /\ ret # nullptr
                /\ nodes'[Top.node].data.params = Append(nodes[Top.node].data.params, ret)
                /\ CASE TokId(Top.ti) = "TokenIdRParen" ->
                          /\ status' = "running"
                          /\ Len(stack') = Len(stack) - 1
                          /\ after = Top.ti + 1
                     [] TokId(Top.ti) = "TokenIdComma" ->
                          /\ status' = "running"
                          /\ Len(stack') = Len(stack) + 1
                          /\ stack'[Len(stack')].first = Top.ti + 1
                     [] OTHER -> FatalAt(Top.ti)
       /\ At("ast_parse_param_decl", "entry") =>
             IF TokId(Top.ti) # "TokenIdSymbol" THEN FatalAt(Top.ti)
             ELSE IF TokId(Top.ti + 1) # "TokenIdColon" THEN FatalAt(Top.ti + 1)
             ELSE status' = "running" /\ stack'[Len(stack')].fn = "ast_parse_type"
       /\ ParamsRejectedAt(<<Sa, Colon, TT, Comma>>, 5)'
       /\ ParamsRejectedAt(<<Sa, Colon, TT, Sb, Colon, TT>>, 4)'
       /\ ParamsRejectedAt(<<Sa, Colon, TT, Semicolon>>, 4)'
       /\ ParamsRejectedAt(<<Sa, Colon, TT, Comma, Comma, Sb, Colon, TT>>, 5)'
       /\ ParamsRejectedAt(<<Comma>>, 1)'
       /\ RejectedAt(<<Sf, LParen, Sa, Comma, RParen>>, 5)'
       /\ RejectedAt(<<Sf, LParen, Sa, Sb, RParen>>, 4)'
       /\ RejectedAt(<<Sf, LParen, Comma, RParen>>, 3)'
       /\ (status' = "returned" /\ IsStmt(<<Sf, LParen, RParen>>)) =>
              Shape(Statement1)' = <<"NodeTypeFnCallExpr", <<>>, <<SymShape("f")>>>>
       /\ (status' = "returned" /\ IsStmt(<<Sf, LParen, Sa, Comma, Sb, RParen>>)) =>
              Shape(Statement1)' = <<"NodeTypeFnCallExpr", <<>>,
                                     <<SymShape("f"), SymShape("a"), SymShape("b")>>>>]_vars

\* a list of two parameters and a list of two arguments in a parsed tree
C25_Witness ==
    /\ status = "returned"
    /\ \E n \in Tree :
          /\ nodes[n].type \in {"NodeTypeFnProto", "NodeTypeFnCallExpr"}
          /\ Len(nodes[n].data.params) = 2

\* `fn f(a : T ,) {}` has been rejected at the `)`
C25_TrailingComma ==
    /\ tokens = Lex(<<KwFn, Sf, LParen, Sa, Colon, TT, Comma, RParen, LBrace, RBrace, Eof>>)
    /\ status = "exited"
    /\ TokId(diags[1].token) = "TokenIdRParen"

(***************************************************************************)
(* Parses that report absence.                                             *)
(***************************************************************************)
\* the functions that take `mandatory` and can return nullptr
AbsentFns ==
    {"ast_parse_expression", "ast_parse_return_expr", "ast_parse_bool_or_expr",
     "ast_parse_bool_and_expr", "ast_parse_comparison_expr", "ast_parse_bin_or_expr",
     "ast_parse_bin_xor_expr", "ast_parse_bin_and_expr", "ast_parse_bit_shift_expr",
     "ast_parse_add_expr", "ast_parse_mult_expr", "ast_parse_cast_expression",
     "ast_parse_prefix_op_expr", "ast_parse_fn_call_expr", "ast_parse_primary_expr",
     "ast_parse_block", "ast_parse_grouped_expr", "ast_parse_root_export_decl",
     "ast_parse_fn_proto", "ast_parse_fn_def", "ast_parse_extern_block", "ast_parse_use"}

\* frame d is a non-mandatory call of one of them
MayBeAbsent(d) == stack[d].fn \in AbsentFns /\ ~stack[d].mandatory

\* the token index the pointer p refers to before and after the step
Before(p) == IF p = 0 THEN token_index ELSE stack[p].ti
After(p) == IF p = 0 THEN token_index' ELSE stack'[p].ti

\* the step is the return of nullptr from the running function
ReturnsAbsent ==
    /\ status = "running"
    /\ status' = "running"
    /\ Len(stack') = Len(stack) - 1
    /\ ret' = nullptr

\* C26: a non-mandatory call of an expression-level function (expression,
\* binary levels, cast, prefix, call, primary, block, grouped, return) or of
\* a declaration recogniser (root export, fn proto, fn def, extern block,
\* use) that returns nullptr returns with the cursor where it was at entry;
\* no cursor ever goes back, and while such a call has the cursor where it
\* was at entry no step changes a node, a list, the root or the pending
\* directive slot, so the call that returns nullptr has changed none of them.
C26_AbsentNoEffect ==
    [][/\ (Len(stack) > 0 /\ MayBeAbsent(Len(stack)) /\ ReturnsAbsent) =>
             /\ After(Top.tip) = Top.first
             /\ Before(Top.tip) = Top.first
             /\ nodes' = nodes
             /\ lists' = lists
             /\ directive_list' = directive_list
             /\ root' = root
             /\ diags' = diags
       /\ \A d \in 1..Len(stack) :
             /\ (d <= Len(stack') /\ stack'[d].fn = stack[d].fn) =>
                   After(stack[d].tip) >= Before(stack[d].tip)
             /\ (status = "running" /\ MayBeAbsent(d) /\ status' = "running"
                 /\ After(stack[d].tip) = stack[d].first) =>
                   /\ nodes' = nodes
                   /\ lists' = lists
                   /\ directive_list' = directive_list
                   /\ root' = root]_vars

\* no declaration recogniser took the directives collected: FnDef has
\* returned nullptr and the pending list is as the collector left it
C26_Witness ==
    /\ At("ast_parse_top_level_decls", "fn_def")
    /\ ret = nullptr
    /\ directive_list # nullptr
    /\ Len(lists[directive_list]) = MaxDirectives
    /\ token_index = MaxDirectives * Len(DirectiveTokens)

\* the expression behind `return` has returned nullptr
C26_Expression ==
    /\ At("ast_parse_return_expr", "expr")
    /\ ret = nullptr
    /\ Deref(Top.tip) = Top.first + 1

====
